---- MODULE Spec2Model ----
(***************************************************************************)
(* Configuration stores of cpm: the global store (core/config.py), the     *)
(* local project store (core/local_config.py) and the ConfigContext that   *)
(* selects one of them (core/context.py).                                  *)
(*                                                                         *)
(* A process is one Python object graph: a ConfigContext and the manager   *)
(* it constructed.  A GlobalConfigManager keeps the document in memory     *)
(* (_servers, _groups), loaded once by __init__; a LocalConfigManager      *)
(* keeps nothing and reads the manifest from disk in every call.           *)
(***************************************************************************)
EXTENDS Integers, Sequences, FiniteSets, TLC

\* ------------------------------------------------------------------ universe

\* Server names and group names the callers pass (the two names of each kind
\* are the ones the "ai-agent" template of _apply_template uses).
Servers == {"brave-search", "filesystem"}
Groups == {"research", "tools"}
Versions == {"latest", "1.0.0"}
Procs == {"p1", "p2"}

\* templates init_project is called with here ("none" is template=None); the
\* "ai-agent" template, which lists servers that have no config file, is
\* left to the callers of ApplyTemplate
Templates == {"none", "basic"}

\* calls and events in one behaviour
MaxSteps == 5

\* A map is a function on a finite set of strings; a dict with no key is << >>.
EmptyMap == << >>

Put(f, k, v) == [x \in (DOMAIN f) \cup {k} |-> IF x = k THEN v ELSE f[x]]

Del(f, k) == [x \in (DOMAIN f) \ {k} |-> f[x]]

\* env mappings the callers pass to add_server / update_server_config
EnvMaps == {EmptyMap, "API_KEY" :> "k1", "HOST" :> "h1"}

\* ------------------------------------------------------------- Python lists

In(x, s) == \E i \in 1..Len(s) : s[i] = x

\* list.remove(x): drops the first occurrence of x
RECURSIVE ListRemove(_, _)
ListRemove(s, x) ==
    IF s = << >> THEN << >>
    ELSE IF Head(s) = x THEN Tail(s)
    ELSE <<Head(s)>> \o ListRemove(Tail(s), x)

\* ----------------------------------------------------------- Python strings

\* A string is a sequence of characters; a character is a string of length 1.
Char(s, i) == SubSeq(s, i, i)

LowerLetters == "abcdefghijklmnopqrstuvwxyz"
UpperLetters == "ABCDEFGHIJKLMNOPQRSTUVWXYZ"
DigitChars == "0123456789"

CharsOf(s) == {Char(s, i) : i \in 1..Len(s)}

AllIn(s, chars) == \A i \in 1..Len(s) : Char(s, i) \in chars

\* str.find(c) + 1: the position of the first c in s, 0 when there is none
IndexOf(s, c) ==
    IF \E i \in 1..Len(s) : Char(s, i) = c
    THEN CHOOSE i \in 1..Len(s) :
            Char(s, i) = c /\ \A j \in 1..(i - 1) : Char(s, j) # c
    ELSE 0

\* str.split(c): the pieces of s between the occurrences of c
RECURSIVE Split(_, _)
Split(s, c) ==
    LET i == IndexOf(s, c)
    IN IF i = 0 THEN <<s>>
       ELSE <<SubSeq(s, 1, i - 1)>> \o Split(SubSeq(s, i + 1, Len(s)), c)

\* sub in s
Contains(sub, s) ==
    \E i \in 1..(Len(s) - Len(sub) + 1) : SubSeq(s, i, i + Len(sub) - 1) = sub

StartsWith(s, prefix) ==
    Len(s) >= Len(prefix) /\ SubSeq(s, 1, Len(prefix)) = prefix

EndsWith(s, suffix) ==
    Len(s) >= Len(suffix) /\ SubSeq(s, Len(s) - Len(suffix) + 1, Len(s)) = suffix

LowerChar(c) ==
    LET i == IndexOf(UpperLetters, c)
    IN IF i = 0 THEN c ELSE Char(LowerLetters, i)

\* str.lower()
RECURSIVE Lower(_)
Lower(s) ==
    IF s = "" THEN ""
    ELSE LowerChar(Char(s, 1)) \o Lower(SubSeq(s, 2, Len(s)))

\* int(s) succeeds: a non-empty run of decimal digits
IsInt(s) == s # "" /\ AllIn(s, CharsOf(DigitChars))

\* int(s) for such a run
RECURSIVE ToInt(_)
ToInt(s) ==
    IF s = "" THEN 0
    ELSE ToInt(SubSeq(s, 1, Len(s) - 1)) * Len(DigitChars)
         + (IndexOf(DigitChars, Char(s, Len(s))) - 1)

\* ------------------------------------------------------- utils/validators.py

MinNameLen == 2
MaxNameLen == 214

ReservedNames == {"node_modules", "favicon.ico"}

\* validate_server_name: the is_valid component of its result
validate_server_name(name) ==
    /\ name # ""
    /\ Len(name) >= MinNameLen
    /\ Len(name) <= MaxNameLen
    /\ AllIn(name, CharsOf(LowerLetters) \cup CharsOf(DigitChars) \cup {"_", "-"})
    /\ name \notin ReservedNames

\* (0|[1-9]\d*)
NumericId(p) ==
    IsInt(p) /\ (Len(p) > 1 => Char(p, 1) # "0")

AlnumHyphen ==
    CharsOf(DigitChars) \cup CharsOf(LowerLetters) \cup CharsOf(UpperLetters) \cup {"-"}

\* (0|[1-9]\d*|\d*[a-zA-Z-][0-9a-zA-Z-]*)
PrereleaseId(p) ==
    \/ NumericId(p)
    \/ p # "" /\ AllIn(p, AlnumHyphen) /\ ~AllIn(p, CharsOf(DigitChars))

\* [0-9a-zA-Z-]+
BuildId(p) == p # "" /\ AllIn(p, AlnumHyphen)

AllParts(s, Ok(_)) ==
    LET parts == Split(s, ".") IN \A i \in 1..Len(parts) : Ok(parts[i])

\* re.match(semver_pattern, version): MAJOR.MINOR.PATCH[-PRERELEASE][+BUILD].
\* The core holds digits and dots only, so the build starts at the first
\* "+" and the prerelease at the first "-" before it.
MatchesSemver(version) ==
    LET plus == IndexOf(version, "+")
        left == IF plus = 0 THEN version ELSE SubSeq(version, 1, plus - 1)
        build == SubSeq(version, plus + 1, Len(version))
        dash == IndexOf(left, "-")
        core == IF dash = 0 THEN left ELSE SubSeq(left, 1, dash - 1)
        pre == SubSeq(left, dash + 1, Len(left))
    IN /\ Len(Split(core, ".")) = 3
       /\ AllParts(core, NumericId)
       /\ dash # 0 => AllParts(pre, PrereleaseId)
       /\ plus # 0 => AllParts(build, BuildId)

\* validate_version: the is_valid component of its result
validate_version(version) ==
    /\ version # ""
    /\ version \in {"latest", "linked"} \/ MatchesSemver(version)

\* ------------------------------------------------- schema.CPMRuntimeConfig

\* A stored server: the fields the managers read and write.
ServerCfg(env, groups) == [env |-> env, groups |-> groups]

\* the slip C27 guards against: the tag appended without the membership test
AddGroupAppends(server, g) == [server EXCEPT !.groups = Append(@, g)]

add_group(server, g) ==
    IF ~In(g, server.groups)
    THEN [server EXCEPT !.groups = Append(@, g)]
    ELSE server

remove_group(server, g) ==
    IF In(g, server.groups)
    THEN [server EXCEPT !.groups = ListRemove(@, g)]
    ELSE server

has_group(server, g) == In(g, server.groups)

\* server configs the callers hand to add_server: built from registry
\* metadata by install / update / link, so they carry no group tag yet
CfgInputs == {ServerCfg(e, << >>) : e \in {EmptyMap, "API_KEY" :> "k1"}}

\* ------------------------------------------------------------------- state

VARIABLES
    globalFile,   \* ~/.config/cpm/servers.json: [status, servers, groups]
    ctx,          \* per process: "none" | "global" | "local" (ConfigContext.context)
    mem,          \* per process: GlobalConfigManager._servers / ._groups
    manifest,     \* ./server.json: [status, servers, devServers, groups]
    cfgFiles,     \* ./.cpm/config/<name>.json: name -> stored server
    last,         \* the last call and how it ended for its caller
    steps,        \* calls and events so far
    registry,         \* the remote registry: its pages, each a list of entries
    servers_cache,    \* RegistryClient._servers_cache
    cache_timestamp,  \* RegistryClient._cache_timestamp
    cache_file,       \* cache/official_registry.json
    now,              \* the clock, in hours
    reg_last,         \* the last RegistryClient call and how it ended
    fetch,            \* _fetch_all_servers under way: its loop variables
    res_cache,        \* ServerNameResolver._cache
    res_file,         \* cache/name_resolution.json
    res_last,         \* the last resolver call and how it ended
    runtime,          \* a stored CPMRuntimeConfig with its original_config
    missing,          \* what the last configuration check reported
    server_json,      \* the registry config handed to adapt: its packages
    env_overrides,    \* the override map handed to adapt
    client,           \* the client manager in use: its class and platform
    config_file,      \* the client's own configuration file (config_path)
    backup_file,      \* its ".bak" sibling
    client_last       \* the last client manager call and how it ended

storeVars == <<globalFile, ctx, mem, manifest, cfgFiles, last, steps>>

registryVars ==
    <<registry, servers_cache, cache_timestamp, cache_file, now, reg_last, fetch>>

resolverVars == <<res_cache, res_file, res_last>>

adapterVars == <<runtime, missing, server_json, env_overrides>>

clientVars == <<client, config_file, backup_file, client_last>>

vars == <<storeVars, registryVars, resolverVars, adapterVars, clientVars>>

EmptyStore == [servers |-> EmptyMap, groups |-> {}]

AbsentFile == [status |-> "absent", servers |-> EmptyMap, groups |-> {}]

CorruptFile == [status |-> "corrupt", servers |-> EmptyMap, groups |-> {}]

AbsentManifest ==
    [status |-> "absent", servers |-> EmptyMap, devServers |-> EmptyMap,
     groups |-> EmptyMap]

CorruptManifest ==
    [status |-> "corrupt", servers |-> EmptyMap, devServers |-> EmptyMap,
     groups |-> EmptyMap]

\* changed: the servers whose stored configuration the call rewrote
Call(op, outcome, changed) == [op |-> op, outcome |-> outcome, changed |-> changed]

Rewritten(before, after) ==
    {n \in (DOMAIN before) \cap (DOMAIN after) : before[n] # after[n]}

\* the manifest init_project writes without a template
FreshManifest ==
    [status |-> "ok", servers |-> EmptyMap, devServers |-> EmptyMap,
     groups |-> EmptyMap]

\* ---- values of the registry client, the resolver and the adapter

\* an Optional[List]: None, or a list
NoServers == [none |-> TRUE, items |-> << >>]

Cached(items) == [none |-> FALSE, items |-> items]

\* an Optional[datetime]: None, or the hour it was taken
NoTimestamp == [none |-> TRUE, at |-> 0]

At(t) == [none |-> FALSE, at |-> t]

NoCacheFile == [exists |-> FALSE, servers |-> << >>, timestamp |-> NoTimestamp]

\* requests: the HTTP requests the call made; failed: the last of them raised
RegCall(op, outcome, result, requests, failed) ==
    [op |-> op, outcome |-> outcome, result |-> result, requests |-> requests,
     failed |-> failed]

NoFetch == [pc |-> "idle", cursor |-> 0, all_servers |-> << >>, limit |-> 0]

NoResFile == [exists |-> FALSE, names |-> EmptyMap]

\* queried: the call asked the registry client; prompted: it asked the user
ResCall(op, name, outcome, result, queried, prompted) ==
    [op |-> op, name |-> name, outcome |-> outcome, result |-> result,
     queried |-> queried, prompted |-> prompted]

\* JSON values as json.dump writes and json.load reads them
JNull == [t |-> "null"]
JStr(s) == [t |-> "string", v |-> s]
JList(items) == [t |-> "array", v |-> items]
JObject(members) == [t |-> "object", v |-> members]

\* what a client manager call did: ok is the bool add_server and remove_server
\* return, names what list_servers returns
ClientCall(op, name, outcome, ok, names) ==
    [op |-> op, name |-> name, outcome |-> outcome, ok |-> ok, names |-> names]

NoClientFile == [exists |-> FALSE, content |-> JNull]

\* no client manager is in use
ClientIdle ==
    /\ client = [kind |-> "none", system |-> "Linux"]
    /\ config_file = NoClientFile
    /\ backup_file = NoClientFile
    /\ client_last = ClientCall("none", "", "returned", FALSE, {})

\* no registry client, resolver or adapter is in use
RegistryIdle ==
    /\ registry = << << >> >>
    /\ servers_cache = NoServers
    /\ cache_timestamp = NoTimestamp
    /\ cache_file = NoCacheFile
    /\ now = 0
    /\ reg_last = RegCall("none", "returned", << >>, 0, FALSE)
    /\ fetch = NoFetch

ResolverIdle ==
    /\ res_cache = EmptyMap
    /\ res_file = NoResFile
    /\ res_last = ResCall("none", "", "returned", "", FALSE, FALSE)

AdapterIdle ==
    /\ runtime = [env |-> EmptyMap, groups |-> << >>, declared |-> << >>,
                  packaged |-> FALSE]
    /\ missing = [checked |-> FALSE, required |-> << >>, placeholders |-> {}]
    /\ server_json = [packages |-> << >>]
    /\ env_overrides = EmptyMap

\* no configuration store is in use
StoreIdle ==
    /\ globalFile = AbsentFile
    /\ ctx = [p \in Procs |-> "none"]
    /\ mem = [p \in Procs |-> EmptyStore]
    /\ manifest = AbsentManifest
    /\ cfgFiles = EmptyMap
    /\ last = Call("none", "returned", {})
    /\ steps = 0

\* No process runs yet and nothing is installed; the working directory is a
\* freshly initialised project or no project at all.
Init ==
    /\ globalFile = AbsentFile
    /\ ctx = [p \in Procs |-> "none"]
    /\ mem = [p \in Procs |-> EmptyStore]
    /\ manifest \in {AbsentManifest, FreshManifest}
    /\ cfgFiles = EmptyMap
    /\ last = Call("none", "returned", {})
    /\ steps = 0
    /\ RegistryIdle
    /\ ResolverIdle
    /\ ClientIdle
    /\ AdapterIdle

\* ---------------------------------------------------- GlobalConfigManager

\* _load_config: a missing file and an unparseable file both leave the
\* manager with the empty dictionaries __init__ set (the JSONDecodeError is
\* logged and swallowed).
LoadConfig(file) ==
    IF file.status = "ok"
    THEN [servers |-> file.servers, groups |-> file.groups]
    ELSE EmptyStore

\* _save_config: the whole in-memory document replaces the file.
SaveConfig(m) == [status |-> "ok", servers |-> m.servers, groups |-> m.groups]

\* Each operation yields the manager's memory after the call, whether it
\* reached _save_config, and the value it returned.
GResult(m, saved, ret) == [mem |-> m, saved |-> saved, ret |-> ret]

G_add_server(m, name, server, force) ==
    IF name \in DOMAIN m.servers /\ ~force
    THEN GResult(m, FALSE, FALSE)
    ELSE GResult([m EXCEPT !.servers = Put(@, name, server)], TRUE, TRUE)

\* the slip C25 guards against: the file is rewritten with the server kept
RemoveKeepsServer(m, name) ==
    IF name \notin DOMAIN m.servers
    THEN GResult(m, FALSE, FALSE)
    ELSE GResult(m, TRUE, TRUE)

G_remove_server(m, name) ==
    IF name \notin DOMAIN m.servers
    THEN GResult(m, FALSE, FALSE)
    ELSE GResult([m EXCEPT !.servers = Del(@, name)], TRUE, TRUE)

\* the slip C5 guards against: server.env.update(env_vars)
MergeEnv(server, env_vars) ==
    [server EXCEPT !.env = [k \in (DOMAIN @) \cup (DOMAIN env_vars) |->
                              IF k \in DOMAIN env_vars THEN env_vars[k] ELSE @[k]]]

\* server.env = env_vars if env_vars else {}
ReplaceEnv(server, env_vars) ==
    [server EXCEPT !.env = IF env_vars # EmptyMap THEN env_vars ELSE EmptyMap]

G_update_server_config(m, name, env_vars) ==
    IF name \notin DOMAIN m.servers
    THEN GResult(m, FALSE, FALSE)
    ELSE GResult([m EXCEPT !.servers[name] = ReplaceEnv(@, env_vars)], TRUE, TRUE)

G_create_group(m, g) ==
    IF g \in m.groups
    THEN GResult(m, FALSE, FALSE)
    ELSE GResult([m EXCEPT !.groups = @ \cup {g}], TRUE, TRUE)

G_delete_group(m, g) ==
    IF g \notin m.groups
    THEN GResult(m, FALSE, FALSE)
    ELSE GResult([servers |-> [n \in DOMAIN m.servers |-> remove_group(m.servers[n], g)],
                  groups |-> m.groups \ {g}], TRUE, TRUE)

G_rename_group(m, old, new) ==
    IF old \notin m.groups THEN GResult(m, FALSE, FALSE)
    ELSE IF new \in m.groups THEN GResult(m, FALSE, FALSE)
    ELSE GResult([servers |-> [n \in DOMAIN m.servers |->
                                  IF has_group(m.servers[n], old)
                                  THEN add_group(remove_group(m.servers[n], old), new)
                                  ELSE m.servers[n]],
                  groups |-> (m.groups \ {old}) \cup {new}], TRUE, TRUE)

\* the slip C26 guards against: the group is created, the server not tagged
TagGroupOnly(m, name, g) ==
    IF name \notin DOMAIN m.servers
    THEN GResult(m, FALSE, FALSE)
    ELSE GResult(IF g \notin m.groups THEN G_create_group(m, g).mem ELSE m, TRUE, TRUE)

\* "Ensure group exists": a missing group is created, then the server tagged
G_add_server_to_group(m, name, g) ==
    IF name \notin DOMAIN m.servers
    THEN GResult(m, FALSE, FALSE)
    ELSE LET m1 == IF g \notin m.groups THEN G_create_group(m, g).mem ELSE m
         IN GResult([m1 EXCEPT !.servers[name] = add_group(@, g)], TRUE, TRUE)

G_remove_server_from_group(m, name, g) ==
    IF name \notin DOMAIN m.servers
    THEN GResult(m, FALSE, FALSE)
    ELSE GResult([m EXCEPT !.servers[name] = remove_group(@, g)], TRUE, TRUE)

\* server_exists(server_name)
server_exists(m, server_name) == server_name \in DOMAIN m.servers

\* get_servers_in_group(group_name)
get_servers_in_group(m, group_name) ==
    [name \in {n \in DOMAIN m.servers : has_group(m.servers[n], group_name)} |->
        m.servers[name]]

\* ----------------------------------------------------- LocalConfigManager

\* Each operation yields the manifest file and the per-server config files
\* as the call leaves them, and how the call ended: "returned", or the
\* failure it raised.  KeyError("... not found") is the NotFound condition,
\* KeyError("Group already exists") the AlreadyExists condition.
LResult(mf, files, outcome) == [manifest |-> mf, files |-> files, outcome |-> outcome]

\* load_manifest: FileNotFoundError without a server.json, ValueError for
\* one that does not parse
LoadFailure(mf) ==
    IF mf.status = "absent" THEN "FileNotFoundError"
    ELSE IF mf.status = "corrupt" THEN "ValueError"
    ELSE "none"

\* _apply_template
ApplyTemplate(mf, template) ==
    IF template = "ai-agent"
    THEN [mf EXCEPT !.servers = Put(Put(@, "brave-search", "latest"), "filesystem", "latest"),
                    !.groups = Put(Put(@, "research", <<"brave-search">>),
                                   "tools", <<"filesystem">>)]
    ELSE mf

L_init_project(mf, files, template) ==
    IF mf.status # "absent"
    THEN LResult(mf, files, "FileExistsError")
    ELSE LResult(IF template # "none" THEN ApplyTemplate(FreshManifest, template)
                 ELSE FreshManifest,
                 files, "returned")

L_add_server(mf, files, name, version, server, dev) ==
    IF LoadFailure(mf) # "none" THEN LResult(mf, files, LoadFailure(mf))
    ELSE LET mf1 == IF dev THEN [mf EXCEPT !.devServers = Put(@, name, version)]
                    ELSE [mf EXCEPT !.servers = Put(@, name, version)]
         IN LResult(mf1, Put(files, name, server), "returned")

L_remove_server(mf, files, name) ==
    IF LoadFailure(mf) # "none" THEN LResult(mf, files, LoadFailure(mf))
    ELSE IF name \notin DOMAIN mf.servers /\ name \notin DOMAIN mf.devServers
    THEN LResult(mf, files, "NotFound")
    ELSE LResult([mf EXCEPT !.servers = Del(@, name),
                            !.devServers = Del(@, name),
                            !.groups = [g \in DOMAIN @ |->
                                          IF In(name, @[g]) THEN ListRemove(@[g], name)
                                          ELSE @[g]]],
                 Del(files, name), "returned")

\* update_server_config reads the server's file only, never the manifest
L_update_server_config(mf, files, name, env_vars) ==
    IF name \notin DOMAIN files
    THEN LResult(mf, files, "NotFound")
    ELSE LResult(mf, [files EXCEPT ![name] = ReplaceEnv(@, env_vars)], "returned")

L_create_group(mf, files, g) ==
    IF LoadFailure(mf) # "none" THEN LResult(mf, files, LoadFailure(mf))
    ELSE IF g \in DOMAIN mf.groups THEN LResult(mf, files, "AlreadyExists")
    ELSE LResult([mf EXCEPT !.groups = Put(@, g, << >>)], files, "returned")

\* the slip C2 guards against: the group leaves the manifest and the
\* servers' files are never rewritten
StripTagSkipped(files, members, g) == files

\* the loop of delete_group over the member list: a member whose file is
\* missing is skipped (the KeyError is logged), a member carrying the tag
\* loses it
RECURSIVE StripTag(_, _, _)
StripTag(files, members, g) ==
    IF members = << >> THEN files
    ELSE LET s == Head(members)
             f1 == IF s \in DOMAIN files /\ In(g, files[s].groups)
                   THEN [files EXCEPT ![s].groups = ListRemove(@, g)]
                   ELSE files
         IN StripTag(f1, Tail(members), g)

L_delete_group(mf, files, g) ==
    IF LoadFailure(mf) # "none" THEN LResult(mf, files, LoadFailure(mf))
    ELSE IF g \notin DOMAIN mf.groups THEN LResult(mf, files, "NotFound")
    ELSE LResult([mf EXCEPT !.groups = Del(@, g)],
                 StripTag(files, mf.groups[g], g), "returned")

\* the loop of rename_group: remove(old_name) then append(new_name)
RECURSIVE Retag(_, _, _, _)
Retag(files, members, old, new) ==
    IF members = << >> THEN files
    ELSE LET s == Head(members)
             f1 == IF s \in DOMAIN files /\ In(old, files[s].groups)
                   THEN [files EXCEPT ![s].groups = Append(ListRemove(@, old), new)]
                   ELSE files
         IN Retag(f1, Tail(members), old, new)

L_rename_group(mf, files, old, new) ==
    IF LoadFailure(mf) # "none" THEN LResult(mf, files, LoadFailure(mf))
    ELSE IF old \notin DOMAIN mf.groups THEN LResult(mf, files, "NotFound")
    ELSE IF new \in DOMAIN mf.groups THEN LResult(mf, files, "AlreadyExists")
    ELSE LResult([mf EXCEPT !.groups = Del(Put(@, new, @[old]), old)],
                 Retag(files, mf.groups[old], old, new), "returned")

L_add_server_to_group(mf, files, name, g) ==
    IF LoadFailure(mf) # "none" THEN LResult(mf, files, LoadFailure(mf))
    ELSE IF g \notin DOMAIN mf.groups THEN LResult(mf, files, "NotFound")
    ELSE IF name \notin DOMAIN mf.servers /\ name \notin DOMAIN mf.devServers
    THEN LResult(mf, files, "NotFound")
    ELSE LET mf1 == IF ~In(name, mf.groups[g])
                    THEN [mf EXCEPT !.groups[g] = Append(@, name)]
                    ELSE mf
             f1 == IF name \in DOMAIN files /\ ~In(g, files[name].groups)
                   THEN [files EXCEPT ![name].groups = Append(@, g)]
                   ELSE files
         IN LResult(mf1, f1, "returned")

L_remove_server_from_group(mf, files, name, g) ==
    IF LoadFailure(mf) # "none" THEN LResult(mf, files, LoadFailure(mf))
    ELSE IF g \notin DOMAIN mf.groups THEN LResult(mf, files, "NotFound")
    ELSE IF In(name, mf.groups[g])
    THEN LResult([mf EXCEPT !.groups[g] = ListRemove(@, name)],
                 IF name \in DOMAIN files /\ In(g, files[name].groups)
                 THEN [files EXCEPT ![name].groups = ListRemove(@, g)]
                 ELSE files,
                 "returned")
    ELSE LResult(mf, files, "returned")

\* ------------------------------------------------------------ ConfigContext

Tick ==
    /\ steps < MaxSteps
    /\ steps' = steps + 1
    /\ UNCHANGED <<registryVars, resolverVars, adapterVars, clientVars>>

\* LocalConfigManager.detect_project: server.json exists (parseable or not)
detect_project == manifest.status # "absent"

\* the slip C8 guards against: the local flag tested before global_force
SelectScopeLocalFirst(local, global_force, detected) ==
    IF local THEN (IF ~detected THEN "FileNotFoundError" ELSE "local")
    ELSE IF global_force THEN "global"
    ELSE IF detected THEN "local"
    ELSE "global"

\* ConfigContext.__init__: the scope it selects, or the failure it raises
SelectScope(local, global_force, detected) ==
    IF global_force THEN "global"
    ELSE IF local THEN (IF ~detected THEN "FileNotFoundError" ELSE "local")
    ELSE IF detected THEN "local"
    ELSE "global"

\* A process constructs its ConfigContext; a global scope constructs a
\* GlobalConfigManager, whose __init__ creates the directory and loads the
\* file once.
Construct(p, local, global_force) ==
    /\ Tick
    /\ ctx[p] = "none"
    /\ LET scope == SelectScope(local, global_force, detect_project)
       IN IF scope = "FileNotFoundError"
          THEN /\ last' = Call("ConfigContext", "FileNotFoundError", {})
               /\ UNCHANGED <<ctx, mem>>
          ELSE /\ ctx' = [ctx EXCEPT ![p] = scope]
               /\ mem' = [mem EXCEPT ![p] = IF scope = "global"
                                             THEN LoadConfig(globalFile)
                                             ELSE EmptyStore]
               /\ last' = Call("ConfigContext", "returned", {})
    /\ UNCHANGED <<globalFile, manifest, cfgFiles>>

\* The process ends; its objects are gone.
Exit(p) ==
    /\ Tick
    /\ ctx[p] # "none"
    /\ ctx' = [ctx EXCEPT ![p] = "none"]
    /\ mem' = [mem EXCEPT ![p] = EmptyStore]
    /\ last' = Call("exit", "returned", {})
    /\ UNCHANGED <<globalFile, manifest, cfgFiles>>

\* A call the context delegates to its GlobalConfigManager: the manager's
\* return value is dropped, the context method returns None.
GlobalCall(p, r, op) ==
    /\ Tick
    /\ mem' = [mem EXCEPT ![p] = r.mem]
    /\ globalFile' = IF r.saved THEN SaveConfig(r.mem) ELSE globalFile
    /\ last' = Call(op, "returned", Rewritten(mem[p].servers, r.mem.servers))
    /\ UNCHANGED <<ctx, manifest, cfgFiles>>

\* A call the context delegates to its LocalConfigManager: what the manager
\* raises reaches the caller.
LocalCall(r, op) ==
    /\ Tick
    /\ manifest' = r.manifest
    /\ cfgFiles' = r.files
    /\ last' = Call(op, r.outcome, Rewritten(cfgFiles, r.files))
    /\ UNCHANGED <<ctx, mem, globalFile>>

\* LocalConfigManager(project_dir).init_project(name, version, template), as
\* `cpm init` runs it, needs no ConfigContext
InitProject(template) ==
    /\ LocalCall(L_init_project(manifest, cfgFiles, template), "init_project")

\* ConfigContext.add_server(name, server_config, force=, version=, dev=):
\* force reaches the global manager only, version and dev the local one only
AddServer(p, name, server, force, version, dev) ==
    /\ ctx[p] # "none"
    /\ IF ctx[p] = "local"
       THEN LocalCall(L_add_server(manifest, cfgFiles, name, version, server, dev),
                      "add_server")
       ELSE GlobalCall(p, G_add_server(mem[p], name, server, force), "add_server")

\* The calls of add_server a behaviour makes: a keyword the selected manager
\* never reads (force in local scope, version and dev in global scope) is
\* left at its default.
AddServerCall(p, name, server, force, version, dev) ==
    /\ ctx[p] = "local" => ~force
    /\ ctx[p] = "global" => (version = "latest" /\ ~dev)
    /\ AddServer(p, name, server, force, version, dev)

RemoveServer(p, name) ==
    /\ ctx[p] # "none"
    /\ IF ctx[p] = "local"
       THEN LocalCall(L_remove_server(manifest, cfgFiles, name), "remove_server")
       ELSE GlobalCall(p, G_remove_server(mem[p], name), "remove_server")

UpdateServerConfig(p, name, env_vars) ==
    /\ ctx[p] # "none"
    /\ IF ctx[p] = "local"
       THEN LocalCall(L_update_server_config(manifest, cfgFiles, name, env_vars),
                      "update_server_config")
       ELSE GlobalCall(p, G_update_server_config(mem[p], name, env_vars),
                       "update_server_config")

CreateGroup(p, g) ==
    /\ ctx[p] # "none"
    /\ IF ctx[p] = "local"
       THEN LocalCall(L_create_group(manifest, cfgFiles, g), "create_group")
       ELSE GlobalCall(p, G_create_group(mem[p], g), "create_group")

DeleteGroup(p, g) ==
    /\ ctx[p] # "none"
    /\ IF ctx[p] = "local"
       THEN LocalCall(L_delete_group(manifest, cfgFiles, g), "delete_group")
       ELSE GlobalCall(p, G_delete_group(mem[p], g), "delete_group")

RenameGroup(p, old, new) ==
    /\ ctx[p] # "none"
    /\ IF ctx[p] = "local"
       THEN LocalCall(L_rename_group(manifest, cfgFiles, old, new), "rename_group")
       ELSE GlobalCall(p, G_rename_group(mem[p], old, new), "rename_group")

AddServerToGroup(p, name, g) ==
    /\ ctx[p] # "none"
    /\ IF ctx[p] = "local"
       THEN LocalCall(L_add_server_to_group(manifest, cfgFiles, name, g),
                      "add_server_to_group")
       ELSE GlobalCall(p, G_add_server_to_group(mem[p], name, g),
                       "add_server_to_group")

RemoveServerFromGroup(p, name, g) ==
    /\ ctx[p] # "none"
    /\ IF ctx[p] = "local"
       THEN LocalCall(L_remove_server_from_group(manifest, cfgFiles, name, g),
                      "remove_server_from_group")
       ELSE GlobalCall(p, G_remove_server_from_group(mem[p], name, g),
                       "remove_server_from_group")

\* A whole-document rewrite cut short (a crash mid-write) leaves a file that
\* does not parse.
CorruptGlobalFile ==
    /\ Tick
    /\ globalFile.status = "ok"
    /\ globalFile' = CorruptFile
    /\ last' = Call("crash", "returned", {})
    /\ UNCHANGED <<ctx, mem, manifest, cfgFiles>>

CorruptManifestFile ==
    /\ Tick
    /\ manifest.status = "ok"
    /\ manifest' = CorruptManifest
    /\ last' = Call("crash", "returned", {})
    /\ UNCHANGED <<ctx, mem, globalFile, cfgFiles>>

Next ==
    \/ \E p \in Procs, l \in BOOLEAN, gf \in BOOLEAN : Construct(p, l, gf)
    \/ \E p \in Procs : Exit(p)
    \/ \E t \in Templates : InitProject(t)
    \/ \E p \in Procs, n \in Servers, c \in CfgInputs, f \in BOOLEAN,
          v \in Versions, d \in BOOLEAN : AddServerCall(p, n, c, f, v, d)
    \/ \E p \in Procs, n \in Servers : RemoveServer(p, n)
    \/ \E p \in Procs, n \in Servers, e \in EnvMaps : UpdateServerConfig(p, n, e)
    \/ \E p \in Procs, g \in Groups : CreateGroup(p, g)
    \/ \E p \in Procs, g \in Groups : DeleteGroup(p, g)
    \/ \E p \in Procs, g \in Groups, h \in Groups : RenameGroup(p, g, h)
    \/ \E p \in Procs, n \in Servers, g \in Groups : AddServerToGroup(p, n, g)
    \/ \E p \in Procs, n \in Servers, g \in Groups : RemoveServerFromGroup(p, n, g)
    \/ CorruptGlobalFile
    \/ CorruptManifestFile

Spec == Init /\ [][Next]_vars

\* ---------------------------------------- the global store, forced by -g

NextGlobal ==
    \/ \E p \in Procs : Construct(p, FALSE, TRUE)
    \/ \E p \in Procs : Exit(p)
    \/ \E p \in Procs, n \in Servers, c \in CfgInputs, f \in BOOLEAN :
          AddServerCall(p, n, c, f, "latest", FALSE)
    \/ \E p \in Procs, n \in Servers : RemoveServer(p, n)
    \/ \E p \in Procs, n \in Servers, g \in Groups : AddServerToGroup(p, n, g)
    \/ \E p \in Procs, n \in Servers, g \in Groups : RemoveServerFromGroup(p, n, g)
    \/ \E p \in Procs, g \in Groups : DeleteGroup(p, g)

SpecGlobal == Init /\ [][NextGlobal]_vars

\* ------------------------------- a project from init_project on, with -l

\* every template _apply_template knows, and none
AllTemplates == {"none", "basic", "ai-agent"}

NextLocal ==
    \/ \E t \in AllTemplates : InitProject(t)
    \/ \E p \in Procs : Construct(p, TRUE, FALSE)
    \/ \E p \in Procs : Exit(p)
    \/ \E p \in Procs, n \in Servers, c \in CfgInputs, v \in Versions, d \in BOOLEAN :
          AddServerCall(p, n, c, FALSE, v, d)
    \/ \E p \in Procs, n \in Servers : RemoveServer(p, n)

SpecLocal == Init /\ [][NextLocal]_vars


\* names and version specifiers a caller can pass: well-formed ones, and an
\* empty name, a name of one character, a name outside [a-z0-9_-]+, a
\* reserved name, an empty version and a version that is no semver
NameInputs == {"filesystem", "", "x", "Bad Name", "node_modules"}
VersionInputs == {"latest", "1.2.3-alpha.1", "", "1.0"}

NextValidate ==
    \/ \E p \in Procs, l \in BOOLEAN, gf \in BOOLEAN : Construct(p, l, gf)
    \/ \E p \in Procs, n \in NameInputs, f \in BOOLEAN, v \in VersionInputs,
          d \in BOOLEAN : AddServerCall(p, n, ServerCfg(EmptyMap, << >>), f, v, d)

SpecValidate == Init /\ [][NextValidate]_vars

\* ------------------------------------------------ registry_v2.RegistryClient

\* the default cache_ttl, in hours
CACHE_TTL == 1

\* hours the clock runs
MaxTime == 2

\* entries of one registry listing, servers of a page, and the largest
\* result-count limit a caller passes
MaxEntries == 3
MaxPageSize == 2
MaxLimit == 2

\* limit=None; `if limit` treats 0 the same
NoLimit == 0

\* version=None; `if version` treats "" the same
NoVersion == ""

\* the "server" object of one registry response entry
Entry(name, version, description) ==
    [name |-> name, version |-> version, description |-> description]

RegistryEntries ==
    {Entry("io.github.a/mysql", "1.0.0", "db"),
     Entry("io.github.a/mysql", "1.0.0-rc", "db"),
     Entry("io.github.b/mysql-backup", "0.10.0", "dump")}

\* the listings of at most n distinct entries, in every order
RECURSIVE Listings(_, _)
Listings(entries, n) ==
    IF n = 0 THEN {<< >>}
    ELSE LET shorter == Listings(entries, n - 1)
         IN shorter \cup
            UNION {{Append(l, e) : e \in entries \ {l[i] : i \in 1..Len(l)}} :
                      l \in shorter}

\* the registry serves a listing in pages of `size` servers; the
\* nextCursor of a page names the page after it, the last page has none
RECURSIVE Paginate(_, _)
Paginate(listing, size) ==
    IF Len(listing) <= size THEN <<listing>>
    ELSE <<SubSeq(listing, 1, size)>>
         \o Paginate(SubSeq(listing, size + 1, Len(listing)), size)

Registries ==
    {Paginate(l, k) : l \in Listings(RegistryEntries, MaxEntries), k \in 1..MaxPageSize}

RECURSIVE Flatten(_)
Flatten(pages) ==
    IF pages = << >> THEN << >> ELSE Head(pages) \o Flatten(Tail(pages))

\* all_servers[:limit]
Take(list, n) == SubSeq(list, 1, IF n < Len(list) THEN n ELSE Len(list))

\* bool(self._servers_cache): neither None nor an empty list
Truthy(cache) == ~cache.none /\ cache.items # << >>

IsCacheNeverValid(cache, timestamp, t) == FALSE

\* _is_cache_valid at hour t
is_cache_valid(cache, timestamp, t) ==
    IF ~Truthy(cache) \/ timestamp.none THEN FALSE
    ELSE t - timestamp.at < CACHE_TTL

\* _save_cache at hour t: an empty cache is not written
save_cache(cache, file, t) ==
    IF ~Truthy(cache) THEN file
    ELSE [exists |-> TRUE, servers |-> cache.items, timestamp |-> At(t)]

\* the pagination test of the loop: data["metadata"]["nextCursor"] is set
NoNextPage(pages, cursor) == FALSE

HasNextPage(pages, cursor) == cursor < Len(pages)

\* the limit test of the loop after fetch_count servers
LimitReached(limit, fetch_count) == limit # NoLimit /\ fetch_count >= limit

\* The loop of _fetch_all_servers from the page at `cursor` on; request is
\* the number of the HTTP request about to be made, and request number failAt
\* raises requests.RequestException (0: none does).
RECURSIVE FetchPages(_, _, _, _, _, _)
FetchPages(pages, cursor, all_servers, limit, failAt, request) ==
    IF request = failAt
    THEN [ok |-> FALSE, servers |-> << >>, requests |-> request]
    ELSE LET all == all_servers \o pages[cursor]
         IN IF LimitReached(limit, Len(all))
            THEN [ok |-> TRUE, servers |-> Take(all, limit), requests |-> request]
            ELSE IF HasNextPage(pages, cursor)
            THEN FetchPages(pages, cursor + 1, all, limit, failAt, request + 1)
            ELSE [ok |-> TRUE, servers |-> all, requests |-> request]

\* the client's fields and what a call made of them
Client(cache, timestamp, file, outcome, result, requests, failed) ==
    [servers_cache |-> cache, cache_timestamp |-> timestamp, cache_file |-> file,
     outcome |-> outcome, result |-> result, requests |-> requests,
     failed |-> failed]

FetchFailedRaises(cache) == "RequestException"

\* the except branch of _fetch_all_servers: a cache with servers is kept in
\* use, without one the exception is raised again
FetchFailed(cache) == IF Truthy(cache) THEN "returned" ELSE "RequestException"

\* _fetch_all_servers(limit) at hour t
fetch_all_servers(cache, timestamp, file, pages, limit, failAt, t) ==
    LET f == FetchPages(pages, 1, << >>, limit, failAt, 1)
    IN IF f.ok
       THEN Client(Cached(f.servers), At(t),
                   save_cache(Cached(f.servers), file, t),
                   "returned", << >>, f.requests, FALSE)
       ELSE Client(cache, timestamp, file, FetchFailed(cache), << >>,
                   f.requests, TRUE)

\* get_servers(force_refresh, limit) at hour t; the result is
\* self._servers_cache or []
get_servers(cache, timestamp, file, pages, force_refresh, limit, failAt, t) ==
    IF force_refresh \/ ~is_cache_valid(cache, timestamp, t)
    THEN LET r == fetch_all_servers(cache, timestamp, file, pages, limit, failAt, t)
         IN IF r.outcome = "returned"
            THEN [r EXCEPT !.result = r.servers_cache.items]
            ELSE r
    ELSE Client(cache, timestamp, file, "returned", cache.items, 0, FALSE)

\* _parse_version: the tuple get_server sorts by; the prerelease and build
\* parts are cut off, and a part that is no integer gives (0, 0, 0)
parse_version(version_str) ==
    LET base == Split(Split(version_str, "-")[1], "+")[1]
        parts == Split(base, ".")
        n == IF Len(parts) < 3 THEN Len(parts) ELSE 3
    IN IF \A i \in 1..n : IsInt(parts[i])
       THEN [i \in 1..n |-> ToInt(parts[i])]
       ELSE <<0, 0, 0>>

\* a < b for tuples of integers
TupleLess(a, b) ==
    \E i \in 1..(Len(b)) :
        /\ \A j \in 1..(i - 1) : j <= Len(a) /\ a[j] = b[j]
        /\ i > Len(a) \/ (i <= Len(a) /\ a[i] < b[i])
        /\ i <= Len(a) + 1

\* matching_servers.sort(key=_parse_version of the version, reverse=True):
\* the sort is stable, servers with equal keys keep their listing order
RECURSIVE SortNewestFirst(_)
SortNewestFirst(servers) ==
    IF servers = << >> THEN << >>
    ELSE LET first == Head(servers)
             rest == SortNewestFirst(Tail(servers))
             newer == SelectSeq(rest,
                        LAMBDA e : TupleLess(parse_version(first.version),
                                             parse_version(e.version)))
         IN newer \o <<first>> \o SubSeq(rest, Len(newer) + 1, Len(rest))

Found(outcome, result) == [outcome |-> outcome, result |-> result]

SelectVersionOrLatest(sorted, version) ==
    IF version # NoVersion /\ version # "latest"
          /\ \E i \in 1..Len(sorted) : sorted[i].version = version
    THEN LET i == CHOOSE i \in 1..Len(sorted) :
                    /\ sorted[i].version = version
                    /\ \A j \in 1..(i - 1) : sorted[j].version # version
         IN Found("returned", <<sorted[i]>>)
    ELSE Found("returned", <<sorted[1]>>)

\* the selection of get_server among the sorted servers of one name
select_version(sorted, version) ==
    IF version # NoVersion /\ version # "latest"
    THEN IF \E i \in 1..Len(sorted) : sorted[i].version = version
         THEN LET i == CHOOSE i \in 1..Len(sorted) :
                         /\ sorted[i].version = version
                         /\ \A j \in 1..(i - 1) : sorted[j].version # version
              IN Found("returned", <<sorted[i]>>)
         ELSE Found("VersionNotFound", << >>)
    ELSE Found("returned", <<sorted[1]>>)

\* get_server(server_name, version) over the servers get_servers returned
get_server(servers, server_name, version) ==
    LET matching_servers == SelectSeq(servers, LAMBDA e : e.name = server_name)
    IN IF matching_servers = << >>
       THEN Found("ServerNotFound", << >>)
       ELSE select_version(SortNewestFirst(matching_servers), version)

\* ---- the registry client in use

\* names and versions get_server is asked for: listed ones and unknown ones
RegistryNames == {"io.github.a/mysql", "io.github.c/pg"}
VersionArgs == {NoVersion, "latest", "1.0.0", "2.0.0"}

\* A client constructed over no cache file, and any registry.
InitRegistry ==
    /\ StoreIdle
    /\ ResolverIdle
    /\ ClientIdle
    /\ AdapterIdle
    /\ registry \in Registries
    /\ servers_cache = NoServers
    /\ cache_timestamp = NoTimestamp
    /\ cache_file = NoCacheFile
    /\ now = 0
    /\ reg_last = RegCall("none", "returned", << >>, 0, FALSE)
    /\ fetch = NoFetch

\* what a call leaves of the client
Leaves(r, op, outcome, result) ==
    /\ servers_cache' = r.servers_cache
    /\ cache_timestamp' = r.cache_timestamp
    /\ cache_file' = r.cache_file
    /\ reg_last' = RegCall(op, outcome, result, r.requests, r.failed)
    /\ UNCHANGED <<registry, now, fetch, storeVars, resolverVars, adapterVars, clientVars>>

GetServers(force_refresh, limit, failAt) ==
    /\ failAt \in 0..Len(registry)
    /\ LET r == get_servers(servers_cache, cache_timestamp, cache_file, registry,
                            force_refresh, limit, failAt, now)
       IN Leaves(r, "get_servers", r.outcome, r.result)

\* fails: the first request get_servers makes, if it makes one, raises
GetServer(server_name, version, fails) ==
    /\ LET r == get_servers(servers_cache, cache_timestamp, cache_file, registry,
                            FALSE, NoLimit, IF fails THEN 1 ELSE 0, now)
           s == get_server(r.result, server_name, version)
       IN IF r.outcome # "returned"
          THEN Leaves(r, "get_server", r.outcome, << >>)
          ELSE Leaves(r, "get_server", s.outcome, s.result)

\* clear_cache
ClearCache ==
    /\ servers_cache' = NoServers
    /\ cache_timestamp' = NoTimestamp
    /\ cache_file' = NoCacheFile
    /\ reg_last' = RegCall("clear_cache", "returned", << >>, 0, FALSE)
    /\ UNCHANGED <<registry, now, fetch, storeVars, resolverVars, adapterVars, clientVars>>

\* RegistryClient(): a new process loads the cache file, if there is one
NewClient ==
    /\ servers_cache' =
          IF cache_file.exists THEN Cached(cache_file.servers) ELSE NoServers
    /\ cache_timestamp' =
          IF cache_file.exists THEN cache_file.timestamp ELSE NoTimestamp
    /\ reg_last' = RegCall("RegistryClient", "returned", << >>, 0, FALSE)
    /\ UNCHANGED <<registry, cache_file, now, fetch, storeVars, resolverVars,
                   adapterVars, clientVars>>

\* an hour passes
Advance ==
    /\ now < MaxTime
    /\ now' = now + 1
    /\ UNCHANGED <<registry, servers_cache, cache_timestamp, cache_file,
                   reg_last, fetch, storeVars, resolverVars, adapterVars,
                   clientVars>>

NextRegistry ==
    \/ \E f \in BOOLEAN, l \in 0..MaxLimit, k \in 0..MaxEntries : GetServers(f, l, k)
    \/ \E n \in RegistryNames, v \in VersionArgs, k \in BOOLEAN : GetServer(n, v, k)
    \/ ClearCache
    \/ NewClient
    \/ Advance

SpecRegistry == InitRegistry /\ [][NextRegistry]_vars

\* ---- _fetch_all_servers, request by request

\* _fetch_all_servers(limit) is entered: all_servers = [], cursor = None
BeginFetch(limit) ==
    /\ fetch.pc # "request"
    /\ fetch' = [pc |-> "request", cursor |-> 1, all_servers |-> << >>,
                 limit |-> limit]
    /\ UNCHANGED <<registry, servers_cache, cache_timestamp, cache_file, now,
                   reg_last, storeVars, resolverVars, adapterVars,
                   clientVars>>

\* the loop is left: the cache is replaced and saved
FinishFetch(all_servers) ==
    /\ fetch' = [fetch EXCEPT !.pc = "done", !.all_servers = all_servers]
    /\ servers_cache' = Cached(all_servers)
    /\ cache_timestamp' = At(now)
    /\ cache_file' = save_cache(Cached(all_servers), cache_file, now)

\* one pass of the loop: the page at the cursor arrives
ReceivePage ==
    /\ fetch.pc = "request"
    /\ LET all == fetch.all_servers \o registry[fetch.cursor]
       IN IF LimitReached(fetch.limit, Len(all))
          THEN FinishFetch(Take(all, fetch.limit))
          ELSE IF HasNextPage(registry, fetch.cursor)
          THEN /\ fetch' = [fetch EXCEPT !.cursor = @ + 1, !.all_servers = all]
               /\ UNCHANGED <<servers_cache, cache_timestamp, cache_file>>
          ELSE FinishFetch(all)
    /\ UNCHANGED <<registry, now, reg_last, storeVars, resolverVars, adapterVars, clientVars>>

\* the request for the page at the cursor raises requests.RequestException
RequestFails ==
    /\ fetch.pc = "request"
    /\ fetch' = [fetch EXCEPT !.pc = "failed"]
    /\ UNCHANGED <<registry, servers_cache, cache_timestamp, cache_file, now,
                   reg_last, storeVars, resolverVars, adapterVars,
                   clientVars>>

NextFetch ==
    \/ \E l \in 0..MaxLimit : BeginFetch(l)
    \/ ReceivePage
    \/ RequestFails
    \/ Advance

\* a request that does not fail is answered
SpecFetch == InitRegistry /\ [][NextFetch]_vars /\ WF_vars(ReceivePage)

\* --------------------------------------------- resolver.ServerNameResolver

\* max_show of _prompt_user_selection
MaxShow == 10

\* the user's answer to the prompt: q, quit or exit
Quit == 0

\* server_name.split("/")[-1]
simple_name(server_name) ==
    LET parts == Split(server_name, "/") IN parts[Len(parts)]

\* unique_servers: the first entry of every name, in listing order
unique_servers(all_servers) ==
    LET first(i) == \A j \in 1..(i - 1) : all_servers[j].name # all_servers[i].name
        RECURSIVE From(_)
        From(i) == IF i > Len(all_servers) THEN << >>
                   ELSE (IF first(i) THEN <<all_servers[i]>> ELSE << >>) \o From(i + 1)
    IN From(1)

\* the sort key of a match: exact simple name first, then exact full name,
\* then the shorter name (False sorts before True)
match_key(m, query_lower) ==
    <<IF Lower(simple_name(m.name)) # query_lower THEN 1 ELSE 0,
      IF Lower(m.name) # query_lower THEN 1 ELSE 0,
      Len(m.name)>>

\* matches.sort(key=...): stable, ascending
RECURSIVE SortMatches(_, _)
SortMatches(matches, query_lower) ==
    IF matches = << >> THEN << >>
    ELSE LET first == Head(matches)
             rest == SortMatches(Tail(matches), query_lower)
             before == SelectSeq(rest,
                         LAMBDA m : TupleLess(match_key(m, query_lower),
                                              match_key(first, query_lower)))
         IN before \o <<first>> \o SubSeq(rest, Len(before) + 1, Len(rest))

\* _search_registry(query) over the servers registry.get_servers() returned
search_registry(all_servers, query) ==
    LET query_lower == Lower(query)
        matches == SelectSeq(unique_servers(all_servers),
                     LAMBDA e : \/ Contains(query_lower, Lower(simple_name(e.name)))
                                \/ Contains(query_lower, Lower(e.name))
                                \/ Contains(query_lower, Lower(e.description)))
    IN SortMatches(matches, query_lower)

\* how resolve ends: what it returns or raises, and whom it asked
Resolution(outcome, result, queried, prompted) ==
    [outcome |-> outcome, result |-> result, queried |-> queried,
     prompted |-> prompted]

\* _prompt_user_selection(query, matches) with the user's answer
prompt_user_selection(matches, choice) ==
    LET shown_matches == Take(matches, MaxShow)
    IN IF choice = Quit
       THEN Resolution("ResolutionCancelled", "", TRUE, TRUE)
       ELSE IF choice <= Len(shown_matches)
       THEN Resolution("returned", shown_matches[choice].name, TRUE, TRUE)
       ELSE Resolution("Invalid choice", "", TRUE, TRUE)

CacheLookupSkipped(cache, name) == FALSE

\* name in self._cache
cache_hit(cache, name) == name \in DOMAIN cache

\* resolve(name) up to its return or raise; reachable: registry.get_servers()
\* returns all_servers (otherwise it raises)
resolution(cache, name, all_servers, reachable, choice) ==
    IF Contains("/", name) THEN Resolution("returned", name, FALSE, FALSE)
    ELSE IF cache_hit(cache, name)
    THEN Resolution("returned", cache[name], FALSE, FALSE)
    ELSE IF ~reachable THEN Resolution("RequestException", "", TRUE, FALSE)
    ELSE LET matches == search_registry(all_servers, name)
         IN IF Len(matches) = 0 THEN Resolution("ServerNotFound", "", TRUE, FALSE)
            ELSE IF Len(matches) = 1
            THEN Resolution("returned", matches[1].name, TRUE, FALSE)
            ELSE prompt_user_selection(matches, choice)

RememberAlways(cache, name, r) ==
    IF r.queried THEN Put(cache, name, r.result) ELSE cache

\* self._cache[name] = full_name, reached by a registry match only
remember(cache, name, r) ==
    IF r.queried /\ r.outcome = "returned" THEN Put(cache, name, r.result)
    ELSE cache

\* ---- the resolver in use

ResolverEntries ==
    RegistryEntries \cup {Entry("io.github.c/pg", "2.0.0", "like MySQL")}

\* names resolve is asked for: simple names and a full name
ResolveNames == {"mysql", "pg", "redis", "io.github.c/pg"}

\* A resolver constructed over no cache file; the registry lists any servers.
InitResolver ==
    /\ StoreIdle
    /\ AdapterIdle
    /\ ResolverIdle
    /\ ClientIdle
    /\ registry \in {<<l>> : l \in Listings(ResolverEntries, MaxEntries)}
    /\ servers_cache = NoServers
    /\ cache_timestamp = NoTimestamp
    /\ cache_file = NoCacheFile
    /\ now = 0
    /\ reg_last = RegCall("none", "returned", << >>, 0, FALSE)
    /\ fetch = NoFetch

\* resolve(name); the prompt repeats until the answer is a valid choice, and
\* _save_cache rewrites the file after a registry match
Resolve(name, reachable, choice) ==
    /\ (Contains("/", name) \/ cache_hit(res_cache, name) \/ ~reachable)
          => choice = Quit
    /\ \E r \in {resolution(res_cache, name, Flatten(registry), reachable, choice)} :
          /\ r.outcome # "Invalid choice"
          /\ r.prompted \/ choice = Quit
          /\ res_cache' = remember(res_cache, name, r)
          /\ res_file' = IF r.queried /\ r.outcome = "returned"
                         THEN [exists |-> TRUE, names |-> res_cache']
                         ELSE res_file
          /\ res_last' = ResCall("resolve", name, r.outcome, r.result, r.queried,
                                 r.prompted)
    /\ UNCHANGED <<storeVars, registryVars, adapterVars, clientVars>>

\* ServerNameResolver.clear_cache
ResolverClearCache ==
    /\ res_cache' = EmptyMap
    /\ res_file' = NoResFile
    /\ res_last' = ResCall("clear_cache", "", "returned", "", FALSE, FALSE)
    /\ UNCHANGED <<storeVars, registryVars, adapterVars, clientVars>>

\* ServerNameResolver(registry): a new process loads the cache file
NewResolver ==
    /\ res_cache' = IF res_file.exists THEN res_file.names ELSE EmptyMap
    /\ res_last' = ResCall("ServerNameResolver", "", "returned", "", FALSE, FALSE)
    /\ UNCHANGED <<res_file, storeVars, registryVars, adapterVars, clientVars>>

NextResolver ==
    \/ \E n \in ResolveNames, ok \in BOOLEAN, c \in {Quit} \cup 1..MaxEntries :
          Resolve(n, ok, c)
    \/ ResolverClearCache
    \/ NewResolver

SpecResolver == InitResolver /\ [][NextResolver]_vars

\* ------------------- adapter.ServerConfigAdapter, config_validator.ConfigValidator

\* a KeyValueInput of package.environmentVariables
EnvVar(name, isRequired) == [name |-> name, isRequired |-> isRequired]

\* the unresolved placeholder of a variable
Placeholder(name) == "${" \o name \o "}"

\* environmentVariables of original_config.packages[0]
Declarations ==
    {<< >>,
     <<EnvVar("API_KEY", TRUE)>>,
     <<EnvVar("API_KEY", TRUE), EnvVar("HOST", FALSE)>>,
     <<EnvVar("HOST", TRUE), EnvVar("API_KEY", TRUE)>>}

\* values an env holds for a variable: empty, its placeholder, a shell-style
\* reference, a concrete value
EnvValues(name) == {"", Placeholder(name), "$" \o name, "k1"}

RuntimeEnvs ==
    UNION {{env \in [names -> UNION {EnvValues(n) : n \in names}] :
               \A n \in names : env[n] \in EnvValues(n)} :
           names \in SUBSET {"API_KEY", "HOST"}}

\* config.env.get(name) is truthy
Configured(env, name) == name \in DOMAIN env /\ env[name] # ""

\* ServerConfigAdapter.get_missing_required_vars(config)
get_missing_required_vars(config) ==
    IF ~config.packaged THEN << >>
    ELSE LET required == SelectSeq(config.declared,
                           LAMBDA env_var : /\ env_var.isRequired
                                            /\ ~Configured(config.env, env_var.name))
         IN [i \in 1..Len(required) |-> required[i].name]

\* ConfigValidator.get_missing_vars(server_config): the names it lists
get_missing_vars(server_config) ==
    {var_name \in DOMAIN server_config.env :
        /\ StartsWith(server_config.env[var_name], "${")
        /\ EndsWith(server_config.env[var_name], "}")}

\* A stored runtime config of any env; one without original_config or without
\* packages declares nothing.
InitAdapter ==
    /\ StoreIdle
    /\ RegistryIdle
    /\ ResolverIdle
    /\ ClientIdle
    /\ \E env \in RuntimeEnvs, declared \in Declarations, packaged \in BOOLEAN :
          /\ ~packaged => declared = << >>
          /\ runtime = [env |-> env, groups |-> << >>, declared |-> declared,
                        packaged |-> packaged]
    /\ missing = [checked |-> FALSE, required |-> << >>, placeholders |-> {}]
    /\ server_json = [packages |-> << >>]
    /\ env_overrides = EmptyMap

\* the missing-variable checks run on the stored server
CheckMissing ==
    /\ missing' = [checked |-> TRUE,
                   required |-> get_missing_required_vars(runtime),
                   placeholders |-> get_missing_vars(runtime)]
    /\ UNCHANGED <<runtime, server_json, env_overrides>>
    /\ UNCHANGED <<storeVars, registryVars, resolverVars, clientVars>>

\* update_server_config(server_name, env_vars) on the stored server
UpdateStoredEnv(env_vars) ==
    /\ runtime' = ReplaceEnv(runtime, env_vars)
    /\ missing' = [checked |-> FALSE, required |-> << >>, placeholders |-> {}]
    /\ UNCHANGED <<server_json, env_overrides, storeVars, registryVars, resolverVars, clientVars>>

NextAdapter ==
    \/ CheckMissing
    \/ \E env_vars \in RuntimeEnvs : UpdateStoredEnv(env_vars)

SpecAdapter == InitAdapter /\ [][NextAdapter]_vars

\* ---- adapt: from a registry config to a runtime config

\* a KeyValueInput with its default; None and "" are the same falsy default
KeyValueInput(name, isRequired, default) ==
    [name |-> name, isRequired |-> isRequired, default |-> default]

\* a Package: its registry type, its transport type and the variables it
\* declares
Package(registryType, transport, environmentVariables) ==
    [registryType |-> registryType, transport |-> transport,
     environmentVariables |-> environmentVariables]

PackageDeclarations ==
    {<< >>,
     <<KeyValueInput("API_KEY", TRUE, "")>>,
     <<KeyValueInput("HOST", TRUE, "h0")>>,
     <<KeyValueInput("API_KEY", TRUE, ""), KeyValueInput("HOST", FALSE, "")>>}

PackageInputs ==
    {Package(k[1], k[2], d) :
        k \in {<<"oci", "streamable-http">>, <<"npm", "stdio">>},
        d \in PackageDeclarations}

\* packages of a registry config: one package, or two
PackageLists ==
    {<<a>> : a \in PackageInputs} \cup {<<a, b>> : a, b \in PackageInputs}

\* override maps: none, an exact key, a key of another case, an empty value
\* and a variable no package declares
OverrideInputs ==
    {EmptyMap, "API_KEY" :> "k1", "api_key" :> "k1",
     ("HOST" :> "") @@ ("EXTRA" :> "x")}

\* _select_best_package: the first package with stdio transport, else the
\* first package
select_best_package(packages) ==
    LET stdio == SelectSeq(packages, LAMBDA pkg : pkg.transport = "stdio")
    IN IF stdio # << >> THEN stdio[1] ELSE packages[1]

ExtractConfiguredOnly(package, overrides) ==
    LET declared == {package.environmentVariables[i].name :
                        i \in 1..Len(package.environmentVariables)}
        at(n) == CHOOSE i \in 1..Len(package.environmentVariables) :
                    package.environmentVariables[i].name = n
        named == {n \in declared : package.environmentVariables[at(n)].default # ""}
    IN [n \in named \cup DOMAIN overrides |->
          IF n \in DOMAIN overrides THEN overrides[n]
          ELSE package.environmentVariables[at(n)].default]

\* _extract_env_vars(package, env_overrides): the loop over the declared
\* variables, then env_vars.update(env_overrides)
extract_env_vars(package, overrides) ==
    LET RECURSIVE Loop(_, _)
        Loop(env_vars, i) ==
            IF i > Len(package.environmentVariables) THEN env_vars
            ELSE LET env_var == package.environmentVariables[i]
                 IN Loop(Put(env_vars, env_var.name,
                             IF overrides # EmptyMap /\ env_var.name \in DOMAIN overrides
                             THEN overrides[env_var.name]
                             ELSE IF env_var.default # "" THEN env_var.default
                             ELSE ""),
                         i + 1)
        declared == Loop(EmptyMap, 1)
    IN [n \in (DOMAIN declared) \cup (DOMAIN overrides) |->
          IF n \in DOMAIN overrides THEN overrides[n] ELSE declared[n]]

\* _adapt_package: the runtime config adapt returns for a config with
\* packages; its original_config is the registry config, whose first package
\* get_missing_required_vars reads
adapt(config, overrides) ==
    LET package == select_best_package(config.packages)
    IN [env |-> extract_env_vars(package, overrides),
        groups |-> << >>,
        declared |-> config.packages[1].environmentVariables,
        packaged |-> TRUE]

\* A registry config with packages and an override map are at hand; no
\* runtime config exists yet.
InitAdapt ==
    /\ StoreIdle
    /\ RegistryIdle
    /\ ResolverIdle
    /\ ClientIdle
    /\ runtime = [env |-> EmptyMap, groups |-> << >>, declared |-> << >>,
                  packaged |-> FALSE]
    /\ missing = [checked |-> FALSE, required |-> << >>, placeholders |-> {}]
    /\ server_json \in {[packages |-> l] : l \in PackageLists}
    /\ env_overrides \in OverrideInputs

\* ServerConfigAdapter.adapt(server_json, env_overrides=env_overrides)
Adapt ==
    /\ runtime' = adapt(server_json, env_overrides)
    /\ missing' = [checked |-> FALSE, required |-> << >>, placeholders |-> {}]
    /\ UNCHANGED <<server_json, env_overrides, storeVars, registryVars, resolverVars, clientVars>>

NextAdapt ==
    \/ Adapt
    \/ runtime.packaged /\ CheckMissing

SpecAdapt == InitAdapt /\ [][NextAdapt]_vars

\* ---- the group helpers of a stored server

\* group names handed to add_group and remove_group
TagInputs == {"research", "tools", "dev"}

\* A stored runtime config of any env that carries no tag, as adapt and the
\* schema's default build it.
InitTags ==
    /\ StoreIdle
    /\ RegistryIdle
    /\ ResolverIdle
    /\ ClientIdle
    /\ \E env \in RuntimeEnvs :
          runtime = [env |-> env, groups |-> << >>, declared |-> << >>,
                     packaged |-> FALSE]
    /\ missing = [checked |-> FALSE, required |-> << >>, placeholders |-> {}]
    /\ server_json = [packages |-> << >>]
    /\ env_overrides = EmptyMap

\* server.add_group(group)
AddGroup(group) ==
    /\ runtime' = add_group(runtime, group)
    /\ UNCHANGED <<missing, server_json, env_overrides>>
    /\ UNCHANGED <<storeVars, registryVars, resolverVars, clientVars>>

\* server.remove_group(group)
RemoveGroup(group) ==
    /\ runtime' = remove_group(runtime, group)
    /\ UNCHANGED <<missing, server_json, env_overrides>>
    /\ UNCHANGED <<storeVars, registryVars, resolverVars, clientVars>>

NextTags ==
    \/ \E g \in TagInputs : AddGroup(g)
    \/ \E g \in TagInputs : RemoveGroup(g)

SpecTags == InitTags /\ [][NextTags]_vars

\* ------------------------------------- the stores' JSON documents and back

\* an Optional[str]: None, or a string
NoneStr == [none |-> TRUE, s |-> ""]
Some(s) == [none |-> FALSE, s |-> s]

\* A CPMRuntimeConfig in memory: install_method is required, command and url
\* are Optional[str], args is Optional[List[str]], env a dict, groups a list.
RuntimeConfig(install_method, command, args, url, env, groups) ==
    [install_method |-> install_method, command |-> command, args |-> args,
     url |-> url, env |-> env, groups |-> groups]

DumpOptional(o) == IF o.none THEN JNull ELSE JStr(o.s)
DumpStrs(l) == JList([i \in 1..Len(l) |-> JStr(l[i])])
DumpMap(m) == JObject([k \in DOMAIN m |-> JStr(m[k])])

\* the slip C22 guards against: empty collections written as null
DumpCollapsesEmpty(server) ==
    [install_method |-> JStr(server.install_method),
     command |-> DumpOptional(server.command),
     args |-> IF server.args.none \/ server.args.items = << >> THEN JNull
              ELSE DumpStrs(server.args.items),
     url |-> DumpOptional(server.url),
     env |-> IF server.env = EmptyMap THEN JNull ELSE DumpMap(server.env),
     groups |-> IF server.groups = << >> THEN JNull ELSE DumpStrs(server.groups)]

\* server.model_dump(), written by json.dump: every field is a key, None is
\* null, an empty list is [] and an empty dict is {}
model_dump(server) ==
    [install_method |-> JStr(server.install_method),
     command |-> DumpOptional(server.command),
     args |-> IF server.args.none THEN JNull ELSE DumpStrs(server.args.items),
     url |-> DumpOptional(server.url),
     env |-> DumpMap(server.env),
     groups |-> DumpStrs(server.groups)]

IsStrList(j) == j.t = "array" /\ \A i \in 1..Len(j.v) : j.v[i].t = "string"
IsStrMap(j) == j.t = "object" /\ \A k \in DOMAIN j.v : j.v[k].t = "string"
Strs(j) == [i \in 1..Len(j.v) |-> j.v[i].v]

\* data.get(key), or the field's default when the key is missing
Field(data, key, default) == IF key \in DOMAIN data THEN data[key] ELSE default

\* CPMRuntimeConfig.model_validate(data) / CPMRuntimeConfig(**data): the
\* object, or a ValidationError (ok = FALSE)
model_validate(data) ==
    LET command == Field(data, "command", JNull)
        args == Field(data, "args", JList(<< >>))
        url == Field(data, "url", JNull)
        env == Field(data, "env", JObject(EmptyMap))
        groups == Field(data, "groups", JList(<< >>))
        ok == /\ "install_method" \in DOMAIN data
              /\ data["install_method"].t = "string"
              /\ command.t \in {"null", "string"}
              /\ url.t \in {"null", "string"}
              /\ args.t = "null" \/ IsStrList(args)
              /\ IsStrMap(env)
              /\ IsStrList(groups)
    IN IF ~ok THEN [ok |-> FALSE, value |-> << >>]
       ELSE [ok |-> TRUE,
             value |-> RuntimeConfig(
                 data["install_method"].v,
                 IF command.t = "null" THEN NoneStr ELSE Some(command.v),
                 IF args.t = "null" THEN NoServers ELSE Cached(Strs(args)),
                 IF url.t = "null" THEN NoneStr ELSE Some(url.v),
                 [k \in DOMAIN env.v |-> env.v[k].v],
                 Strs(groups))]

\* _save_config: servers and groups dumped into one document
SaveJson(m) ==
    [status |-> "ok",
     servers |-> [n \in DOMAIN m.servers |-> model_dump(m.servers[n])],
     groups |-> [g \in m.groups |-> [name |-> JStr(g)]]]

\* _load_config: an entry that does not validate is logged and skipped
LoadJson(file) ==
    IF file.status # "ok" THEN EmptyStore
    ELSE [servers |-> [n \in {x \in DOMAIN file.servers :
                                 model_validate(file.servers[x]).ok} |->
                          model_validate(file.servers[n]).value],
          groups |-> {g \in DOMAIN file.groups :
                        /\ "name" \in DOMAIN file.groups[g]
                        /\ file.groups[g]["name"].t = "string"}]

\* LocalConfigManager.get_server(name) over the per-server files
L_get_server(files, name) ==
    IF name \notin DOMAIN files THEN [outcome |-> "NotFound", value |-> << >>]
    ELSE IF "command" \in DOMAIN files[name] \/ "url" \in DOMAIN files[name]
    THEN IF model_validate(files[name]).ok
         THEN [outcome |-> "returned", value |-> model_validate(files[name]).value]
         ELSE [outcome |-> "ValidationError", value |-> << >>]
    ELSE [outcome |-> "ValueError", value |-> << >>]

\* runtime configs as adapt builds them: a stdio server with arguments and
\* env, a stdio server with no argument and no env, a remote server
RuntimeInputs ==
    {RuntimeConfig("stdio", Some("npx"), Cached(<<"-y", "pkg">>), NoneStr,
                   "API_KEY" :> "", << >>),
     RuntimeConfig("stdio", Some("uvx"), Cached(<< >>), NoneStr, EmptyMap, << >>),
     RuntimeConfig("sse", NoneStr, Cached(<< >>), Some("https://h/sse"),
                   EmptyMap, << >>)}

\* env maps update_server_config is called with
EnvUpdates == {EmptyMap, "API_KEY" :> "k1"}

\* the manager of the global store, and the group it tags servers with
Manager == "p1"
Tag == "research"

\* A GlobalConfigManager over no file, and a project with no server yet.
InitRoundTrip ==
    /\ StoreIdle
    /\ RegistryIdle
    /\ ResolverIdle
    /\ ClientIdle
    /\ AdapterIdle

\* a mutating call on the manager, which rewrites servers.json when it
\* reaches _save_config
StoreCall(r, op) ==
    /\ mem' = [mem EXCEPT ![Manager] = r.mem]
    /\ globalFile' = IF r.saved THEN SaveJson(r.mem) ELSE globalFile
    /\ last' = Call(op, "returned", {})
    /\ UNCHANGED <<ctx, manifest, cfgFiles, steps>>
    /\ UNCHANGED <<registryVars, resolverVars, adapterVars, clientVars>>

\* LocalConfigManager._save_server_config(name, server_config), as add_server
\* calls it
SaveServerConfig(name, server_config) ==
    /\ cfgFiles' = Put(cfgFiles, name, model_dump(server_config))
    /\ last' = Call("add_server", "returned", {name})
    /\ UNCHANGED <<ctx, mem, globalFile, manifest, steps>>
    /\ UNCHANGED <<registryVars, resolverVars, adapterVars, clientVars>>

\* LocalConfigManager.update_server_config(name, env_vars): the server is
\* read from its file, its env replaced, and written back
LocalUpdateEnv(name, env_vars) ==
    /\ LET server == L_get_server(cfgFiles, name)
       IN IF server.outcome # "returned"
          THEN /\ last' = Call("update_server_config", server.outcome, {})
               /\ UNCHANGED cfgFiles
          ELSE /\ cfgFiles' = Put(cfgFiles, name,
                                  model_dump(ReplaceEnv(server.value, env_vars)))
               /\ last' = Call("update_server_config", "returned", {name})
    /\ UNCHANGED <<ctx, mem, globalFile, manifest, steps>>
    /\ UNCHANGED <<registryVars, resolverVars, adapterVars, clientVars>>

NextRoundTrip ==
    \/ \E n \in Servers, c \in RuntimeInputs :
          StoreCall(G_add_server(mem[Manager], n, c, TRUE), "add_server")
    \/ \E n \in Servers : StoreCall(G_remove_server(mem[Manager], n), "remove_server")
    \/ \E n \in Servers, e \in EnvUpdates :
          StoreCall(G_update_server_config(mem[Manager], n, e), "update_server_config")
    \/ \E n \in Servers :
          StoreCall(G_add_server_to_group(mem[Manager], n, Tag), "add_server_to_group")
    \/ \E n \in Servers :
          StoreCall(G_remove_server_from_group(mem[Manager], n, Tag),
                    "remove_server_from_group")
    \/ StoreCall(G_delete_group(mem[Manager], Tag), "delete_group")
    \/ \E c \in RuntimeInputs : SaveServerConfig("filesystem", c)
    \/ \E e \in EnvUpdates : LocalUpdateEnv("filesystem", e)

SpecRoundTrip == InitRoundTrip /\ [][NextRoundTrip]_vars

\* ------------------------------------------- clients/base.py and managers

\* The manager classes in use: CursorManager is JSONClientManager as it
\* stands, VSCodeManager overrides its load and save, GooseManager keeps a
\* map under "extensions" and ContinueManager a list under "mcpServers".
ClientKinds == {"cursor", "vscode", "goose", "continue"}

JSONKinds == {"cursor", "vscode"}

\* platform.system()
Systems == {"Linux", "Windows"}

JBool(b) == [t |-> "boolean", v |-> b]

\* file content that json.load and yaml.load reject
Unparseable(text) == [t |-> "unparseable", text |-> text]

ClientFile(content) == [exists |-> TRUE, content |-> content]

Parsed(file) == file.content.t # "unparseable"

configure_key_name(kind) == IF kind = "vscode" THEN "servers" ELSE "mcpServers"

\* bool(x) of an Optional[str]
NonEmpty(o) == ~o.none /\ o.s # ""

\* {k: v for k, v in server_config.env.items() if v}
TruthyEnv(env) ==
    JObject([k \in {x \in DOMAIN env : env[x] # ""} |-> JStr(env[k])])

WithEnv(result, key, env) ==
    IF env # EmptyMap THEN Put(result, key, TruthyEnv(env)) ELSE result

\* JSONClientManager.to_client_format; YAMLClientManager's is the same code
base_to_client_format(server_config) ==
    IF NonEmpty(server_config.command)
    THEN JObject(WithEnv(
             "command" :> JStr(server_config.command.s) @@
             "args" :> (IF server_config.args.none THEN JList(<< >>)
                        ELSE DumpStrs(server_config.args.items)),
             "env", server_config.env))
    ELSE IF NonEmpty(server_config.url)
    THEN JObject("url" :> JStr(server_config.url.s) @@
                 "headers" :> JObject(EmptyMap))
    ELSE JObject(model_dump(server_config))

\* to_client_format of each manager. STDIOServerConfig is an alias of
\* CPMRuntimeConfig, so VSCode's and Goose's isinstance tests always pass.
to_client_format(kind, server_name, server_config) ==
    LET args == IF server_config.args.none THEN JNull
                ELSE DumpStrs(server_config.args.items)
    IN CASE kind = "vscode" ->
              JObject(WithEnv("type" :> JStr("stdio") @@
                              "command" :> DumpOptional(server_config.command) @@
                              "args" :> args,
                              "env", server_config.env))
         [] kind = "goose" ->
              JObject(WithEnv("cmd" :> DumpOptional(server_config.command) @@
                              "args" :> args @@
                              "type" :> JStr("stdio") @@
                              "name" :> JStr(server_name) @@
                              "enabled" :> JBool(TRUE),
                              "envs", server_config.env))
         [] OTHER -> base_to_client_format(server_config)

\* what a load leaves: the dict it returns and the two files afterwards
Loaded(config, file, bak) == [config |-> config, file |-> file, bak |-> bak]

\* JSONClientManager._load_config. os.rename onto an existing ".bak" replaces
\* it, except on Windows where it raises and the error is swallowed.
J_load_config(cl, file, bak) ==
    LET key == configure_key_name(cl.kind)
        empty_config == key :> JObject(EmptyMap)
    IN IF ~file.exists THEN Loaded(empty_config, file, bak)
       ELSE IF Parsed(file)
       THEN Loaded(IF key \in DOMAIN file.content.v THEN file.content.v
                   ELSE Put(file.content.v, key, JObject(EmptyMap)),
                   file, bak)
       ELSE IF cl.system = "Windows" /\ bak.exists
       THEN Loaded(empty_config, file, bak)
       ELSE Loaded(empty_config, NoClientFile, file)

\* VSCodeManager._load_config: the "mcp" section of the settings; a missing
\* or unreadable file gives {"mcp": {"servers": {}}} and stays where it is
V_load_config(cl, file, bak) ==
    LET key == configure_key_name(cl.kind)
        empty_config == "mcp" :> JObject(key :> JObject(EmptyMap))
    IN IF ~file.exists \/ ~Parsed(file) THEN Loaded(empty_config, file, bak)
       ELSE LET config == file.content.v
                mcp == IF "mcp" \in DOMAIN config THEN config["mcp"].v
                       ELSE EmptyMap
            IN Loaded(IF key \in DOMAIN mcp THEN mcp
                      ELSE Put(mcp, key, JObject(EmptyMap)),
                      file, bak)

Saved(ok, file) == [ok |-> ok, file |-> file]

\* JSONClientManager._save_config; YAMLClientManager's differs in the dumper
J_save_config(config, file) == Saved(TRUE, ClientFile(JObject(config)))

\* the slip C24 guards against: the settings are written as the "mcp"
\* section alone
SaveMcpOnly(config, file) ==
    IF file.exists /\ ~Parsed(file) THEN Saved(FALSE, file)
    ELSE Saved(TRUE, ClientFile(JObject("mcp" :> JObject(config))))

\* VSCodeManager._save_config: the settings are read again and their "mcp"
\* section replaced; settings that do not parse make the save fail
V_save_config(config, file) ==
    IF file.exists /\ ~Parsed(file) THEN Saved(FALSE, file)
    ELSE LET current_config == IF file.exists THEN file.content.v ELSE EmptyMap
         IN Saved(TRUE,
                  ClientFile(JObject(Put(current_config, "mcp", JObject(config)))))

load_config(cl, file, bak) ==
    IF cl.kind = "vscode" THEN V_load_config(cl, file, bak)
    ELSE J_load_config(cl, file, bak)

save_config(cl, config, file) ==
    IF cl.kind = "vscode" THEN V_save_config(config, file)
    ELSE J_save_config(config, file)

\* how a call ended and what it left on disk
Ended(outcome, ok, names, file, bak) ==
    [outcome |-> outcome, ok |-> ok, names |-> names, file |-> file, bak |-> bak]

\* JSONClientManager.add_server: config[key] raises KeyError without the key
J_add_server(cl, server_name, server_config, file, bak) ==
    LET key == configure_key_name(cl.kind)
        client_config == to_client_format(cl.kind, server_name, server_config)
        loaded == load_config(cl, file, bak)
        config == loaded.config
    IN IF key \notin DOMAIN config
       THEN Ended("raised", FALSE, {}, loaded.file, loaded.bak)
       ELSE LET saved == save_config(cl,
                             Put(config, key,
                                 JObject(Put(config[key].v, server_name,
                                             client_config))),
                             loaded.file)
            IN Ended("returned", saved.ok, {}, saved.file, loaded.bak)

Drop(f, k) == [x \in (DOMAIN f) \ {k} |-> f[x]]

\* JSONClientManager.remove_server
J_remove_server(cl, server_name, file, bak) ==
    LET key == configure_key_name(cl.kind)
        loaded == load_config(cl, file, bak)
        config == loaded.config
        servers == IF key \in DOMAIN config THEN config[key].v ELSE EmptyMap
    IN IF server_name \notin DOMAIN servers
       THEN Ended("returned", FALSE, {}, loaded.file, loaded.bak)
       ELSE LET saved == save_config(cl,
                             Put(config, key, JObject(Drop(servers, server_name))),
                             loaded.file)
            IN Ended("returned", saved.ok, {}, saved.file, loaded.bak)

\* JSONClientManager.list_servers, through get_servers
J_list_servers(cl, file, bak) ==
    LET key == configure_key_name(cl.kind)
        loaded == load_config(cl, file, bak)
        config == loaded.config
    IN Ended("returned", TRUE,
             IF key \in DOMAIN config THEN DOMAIN config[key].v ELSE {},
             loaded.file, loaded.bak)

\* ---- the YAML managers

\* _get_empty_config of GooseManager and ContinueManager
get_empty_config(kind) ==
    IF kind = "goose" THEN "extensions" :> JObject(EmptyMap)
    ELSE "name" :> JStr("Local Assistant") @@ "version" :> JStr("1.0.0") @@
         "schema" :> JStr("v1") @@ "models" :> JList(<< >>) @@
         "mcpServers" :> JList(<< >>)

\* YAMLClientManager._load_config: a missing file, a file that does not
\* parse and an empty document all give the empty config
Y_load_config(cl, file) ==
    IF ~file.exists \/ ~Parsed(file) \/ file.content.v = EmptyMap
    THEN get_empty_config(cl.kind)
    ELSE file.content.v

\* server.get("name")
EntryName(server) ==
    IF "name" \in DOMAIN server.v THEN server.v["name"] ELSE JNull

Listed(config, key) == IF key \in DOMAIN config THEN config[key].v ELSE << >>

\* the first index of the list holding the named server, or 0
Position(servers, server_name) ==
    IF \E i \in 1..Len(servers) : EntryName(servers[i]) = JStr(server_name)
    THEN CHOOSE i \in 1..Len(servers) :
             /\ EntryName(servers[i]) = JStr(server_name)
             /\ \A j \in 1..(i - 1) : EntryName(servers[j]) # JStr(server_name)
    ELSE 0

\* _get_server_config: the entry, or None
get_server_config(kind, config, server_name) ==
    IF kind = "goose"
    THEN LET extensions == Listed(config, "extensions")
         IN IF server_name \in DOMAIN extensions
            THEN [none |-> FALSE, value |-> extensions[server_name]]
            ELSE [none |-> TRUE, value |-> JNull]
    ELSE LET i == Position(Listed(config, "mcpServers"), server_name)
         IN IF i # 0
            THEN [none |-> FALSE, value |-> Listed(config, "mcpServers")[i]]
            ELSE [none |-> TRUE, value |-> JNull]

\* _get_all_server_names, as a set
get_all_server_names(kind, config) ==
    IF kind = "goose" THEN DOMAIN Listed(config, "extensions")
    ELSE LET servers == Listed(config, "mcpServers")
         IN {EntryName(servers[i]).v :
                i \in {j \in 1..Len(servers) :
                          /\ EntryName(servers[j]).t = "string"
                          /\ EntryName(servers[j]).v # ""}}

\* _add_server_to_config
add_server_to_config(kind, config, server_name, server_config) ==
    IF kind = "goose"
    THEN Put(config, "extensions",
             JObject(Put(Listed(config, "extensions"), server_name,
                         server_config)))
    ELSE LET named == IF "name" \in DOMAIN server_config.v THEN server_config
                      ELSE JObject(Put(server_config.v, "name",
                                       JStr(server_name)))
             servers == Listed(config, "mcpServers")
             i == Position(servers, server_name)
         IN Put(config, "mcpServers",
                JList(IF i # 0 THEN [servers EXCEPT ![i] = named]
                      ELSE Append(servers, named)))

\* _remove_server_from_config
remove_server_from_config(kind, config, server_name) ==
    IF kind = "goose"
    THEN IF /\ "extensions" \in DOMAIN config
            /\ server_name \in DOMAIN config["extensions"].v
         THEN Put(config, "extensions",
                  JObject(Drop(config["extensions"].v, server_name)))
         ELSE config
    ELSE Put(config, "mcpServers",
             JList(SelectSeq(Listed(config, "mcpServers"),
                             LAMBDA s : EntryName(s) # JStr(server_name))))

\* not x, of an entry _get_server_config returned: None and {} are falsy
Falsy(entry) == entry.none \/ entry.value.v = EmptyMap

\* YAMLClientManager.add_server
Y_add_server(cl, server_name, server_config, file, bak) ==
    LET client_config == to_client_format(cl.kind, server_name, server_config)
        config == add_server_to_config(cl.kind, Y_load_config(cl, file),
                                       server_name, client_config)
    IN Ended("returned", TRUE, {}, J_save_config(config, file).file, bak)

\* YAMLClientManager.remove_server
Y_remove_server(cl, server_name, file, bak) ==
    LET config == Y_load_config(cl, file)
    IN IF Falsy(get_server_config(cl.kind, config, server_name))
       THEN Ended("returned", FALSE, {}, file, bak)
       ELSE Ended("returned", TRUE, {},
                  J_save_config(remove_server_from_config(cl.kind, config,
                                                          server_name),
                                file).file,
                  bak)

\* YAMLClientManager.list_servers
Y_list_servers(cl, file, bak) ==
    Ended("returned", TRUE,
          get_all_server_names(cl.kind, Y_load_config(cl, file)), file, bak)

\* ---- a client manager in use

\* the other settings of the documents below
ClientDocs(kind) ==
    LET entry == to_client_format(kind, "brave-search",
                     RuntimeConfig("stdio", Some("npx"), Cached(<< >>), NoneStr,
                                   EmptyMap, << >>))
    IN CASE kind = "cursor" ->
              {"theme" :> JStr("dark"),
               "theme" :> JStr("dark") @@
               "mcpServers" :> JObject("brave-search" :> entry)}
         [] kind = "vscode" ->
              {"editor.fontSize" :> JStr("14"),
               "editor.fontSize" :> JStr("14") @@
               "mcp" :> JObject("inputs" :> JList(<< >>) @@
                                "servers" :> JObject("brave-search" :> entry))}
         [] kind = "goose" ->
              {"GOOSE_MODEL" :> JStr("gpt"),
               "GOOSE_MODEL" :> JStr("gpt") @@
               "extensions" :> JObject("brave-search" :> entry)}
         [] OTHER ->
              {"name" :> JStr("mine"),
               "name" :> JStr("mine") @@
               "mcpServers" :> JList(<<JObject(Put(entry.v, "name",
                                                   JStr("brave-search")))>>)}

\* what the client or its user may have left at config_path
ClientFiles(kind) ==
    {NoClientFile, ClientFile(Unparseable("{oops"))} \cup
    {ClientFile(JObject(doc)) : doc \in ClientDocs(kind)}

InitClient ==
    /\ client \in [kind : ClientKinds, system : Systems]
    /\ config_file \in ClientFiles(client.kind)
    /\ backup_file \in {NoClientFile, ClientFile(Unparseable("{older"))}
    /\ client_last = ClientCall("none", "", "returned", FALSE, {})
    /\ StoreIdle
    /\ RegistryIdle
    /\ ResolverIdle
    /\ AdapterIdle

ClientCalled(op, name, r) ==
    /\ config_file' = r.file
    /\ backup_file' = r.bak
    /\ client_last' = ClientCall(op, name, r.outcome, r.ok, r.names)
    /\ UNCHANGED <<client, storeVars, registryVars, resolverVars, adapterVars>>

ClientAddServer(server_name, server_config) ==
    \E r \in {IF client.kind \in JSONKinds
              THEN J_add_server(client, server_name, server_config,
                                config_file, backup_file)
              ELSE Y_add_server(client, server_name, server_config,
                                config_file, backup_file)} :
        ClientCalled("add_server", server_name, r)

ClientRemoveServer(server_name) ==
    \E r \in {IF client.kind \in JSONKinds
              THEN J_remove_server(client, server_name, config_file, backup_file)
              ELSE Y_remove_server(client, server_name, config_file,
                                   backup_file)} :
        ClientCalled("remove_server", server_name, r)

ClientListServers ==
    \E r \in {IF client.kind \in JSONKinds
              THEN J_list_servers(client, config_file, backup_file)
              ELSE Y_list_servers(client, config_file, backup_file)} :
        ClientCalled("list_servers", "", r)

\* the client application or its user rewrites the file
EditConfigFile(file) ==
    /\ file.exists
    /\ config_file' = file
    /\ client_last' = ClientCall("edit", "", "returned", TRUE, {})
    /\ UNCHANGED <<client, backup_file, storeVars, registryVars, resolverVars,
                   adapterVars>>

NextClient ==
    \/ \E n \in Servers, c \in RuntimeInputs : ClientAddServer(n, c)
    \/ \E n \in Servers : ClientRemoveServer(n)
    \/ ClientListServers
    \/ \E f \in ClientFiles(client.kind) : EditConfigFile(f)

SpecClient == InitClient /\ [][NextClient]_vars

\* ----------------------------------------------------------- utils/semver.py

\* the characters of version identifiers in code point order
CodePointOrder == "-" \o DigitChars \o UpperLetters \o LowerLetters

\* a < b for str
StrLess(a, b) ==
    \E i \in 1..Len(b) :
        /\ i <= Len(a) + 1
        /\ SubSeq(a, 1, i - 1) = SubSeq(b, 1, i - 1)
        /\ \/ i > Len(a)
           \/ IndexOf(CodePointOrder, Char(a, i)) < IndexOf(CodePointOrder, Char(b, i))

\* SemanticVersion(version) for a concrete version that matches the semver
\* pattern; prerelease None is "" (a prerelease that matches is not empty)
SemanticVersion(version) ==
    LET left == Split(version, "+")[1]
        dash == IndexOf(left, "-")
        core == Split(IF dash = 0 THEN left ELSE SubSeq(left, 1, dash - 1), ".")
    IN [major |-> ToInt(core[1]), minor |-> ToInt(core[2]), patch |-> ToInt(core[3]),
        prerelease |-> IF dash = 0 THEN "" ELSE SubSeq(left, dash + 1, Len(left))]

\* _compare_prerelease(pr1, pr2) < 0: the first identifiers that differ
\* decide, as integers when both are, as strings otherwise; a prerelease
\* that is a proper prefix of the other is the lower one
PrereleaseLess(pr1, pr2) ==
    LET parts1 == Split(pr1, ".")
        parts2 == Split(pr2, ".")
        Numeric(i) == IsInt(parts1[i]) /\ IsInt(parts2[i])
        Same(i) == IF Numeric(i) THEN ToInt(parts1[i]) = ToInt(parts2[i])
                   ELSE parts1[i] = parts2[i]
        Less(i) == IF Numeric(i) THEN ToInt(parts1[i]) < ToInt(parts2[i])
                   ELSE StrLess(parts1[i], parts2[i])
    IN \E i \in 1..Len(parts2) :
          /\ i <= Len(parts1) + 1
          /\ \A j \in 1..(i - 1) : Same(j)
          /\ i > Len(parts1) \/ (i <= Len(parts1) /\ Less(i))

\* SemanticVersion.__lt__
SemverLt(a, b) ==
    LET x == SemanticVersion(a)
        y == SemanticVersion(b)
    IN IF x.major # y.major THEN x.major < y.major
       ELSE IF x.minor # y.minor THEN x.minor < y.minor
       ELSE IF x.patch # y.patch THEN x.patch < y.patch
       ELSE IF x.prerelease = "" THEN FALSE
       ELSE IF y.prerelease = "" THEN TRUE
       ELSE PrereleaseLess(x.prerelease, y.prerelease)

\* ------------------------------------------------- what a context sees

\* the manager can read its store: a local manager needs a parseable
\* server.json, a global manager reads its memory
Readable(p) == ctx[p] = "global" \/ (ctx[p] = "local" /\ manifest.status = "ok")

\* the servers get_server finds, with their stored configuration
ScopeServers(p) == IF ctx[p] = "local" THEN cfgFiles ELSE mem[p].servers

\* the names installed in the scope
ScopeInstalled(p) ==
    IF ctx[p] = "local"
    THEN (DOMAIN manifest.servers) \cup (DOMAIN manifest.devServers)
    ELSE DOMAIN mem[p].servers

\* the groups that exist in the scope
ScopeGroups(p) == IF ctx[p] = "local" THEN DOMAIN manifest.groups ELSE mem[p].groups

\* what the scope has stored, on disk and in memory
ScopeStore(p) ==
    IF ctx[p] = "local" THEN <<manifest, cfgFiles>> ELSE <<mem[p], globalFile>>

Without(s, x) == SelectSeq(s, LAMBDA y : y # x)

\* ------------------------------------------------------------------ claims

\* C1: in local scope, for every group g and every installed server s, s is
\* in the manifest's member list of g iff g is in the groups list of s's
\* config file.
C1_MembersMatchTags ==
    manifest.status = "ok" =>
        \A g \in Groups, s \in (DOMAIN manifest.servers) \cup (DOMAIN manifest.devServers) :
            s \in DOMAIN cfgFiles =>
                ((g \in DOMAIN manifest.groups /\ In(s, manifest.groups[g]))
                    <=> In(g, cfgFiles[s].groups))

\* C2: in either scope, delete_group(g) on an existing group removes no
\* server, strips the tag g from every stored server (their other tags stay,
\* so a server tagged with g alone has groups = []), and g no longer exists.
C2_DeleteGroupStripsTag ==
    [][\A p \in Procs, g \in Groups :
          (last'.op = "delete_group" /\ DeleteGroup(p, g) /\ Readable(p)
              /\ g \in ScopeGroups(p)) =>
              /\ last'.outcome = "returned"
              /\ ScopeInstalled(p)' = ScopeInstalled(p)
              /\ DOMAIN ScopeServers(p)' = DOMAIN ScopeServers(p)
              /\ \A s \in DOMAIN ScopeServers(p) :
                    ScopeServers(p)'[s].groups = Without(ScopeServers(p)[s].groups, g)
              /\ g \notin ScopeGroups(p)'
              /\ ctx[p] = "global" => globalFile' = SaveConfig(mem'[p])]_vars

\* C2 witness: a local delete_group has just stripped the tag from a server
\* that is still installed and now has groups = [].
C2_Witness ==
    /\ last.op = "delete_group" /\ last.outcome = "returned"
    /\ \E p \in Procs : ctx[p] = "local"
    /\ \A p \in Procs : ctx[p] # "global"
    /\ \E s \in last.changed :
          /\ s \in DOMAIN manifest.servers
          /\ cfgFiles[s].groups = << >>

\* C3: through the context, removing a server that is not installed, or
\* deleting a group that does not exist, raises NotFound and leaves the
\* store unchanged.
C3_MissingTargetRaisesNotFound ==
    [][/\ \A p \in Procs, n \in Servers :
             (last'.op = "remove_server" /\ RemoveServer(p, n) /\ Readable(p)
                 /\ n \notin ScopeInstalled(p)) =>
                 (last'.outcome = "NotFound" /\ ScopeStore(p)' = ScopeStore(p))
       /\ \A p \in Procs, g \in Groups :
             (last'.op = "delete_group" /\ DeleteGroup(p, g) /\ Readable(p)
                 /\ g \notin ScopeGroups(p)) =>
                 (last'.outcome = "NotFound" /\ ScopeStore(p)' = ScopeStore(p))]_vars

\* C4: add_server_to_group(s, g) for an installed server and a group that
\* does not exist raises NotFound, creates no group and tags no server.
C4_MissingGroupRaisesNotFound ==
    [][\A p \in Procs, n \in Servers, g \in Groups :
          (last'.op = "add_server_to_group" /\ AddServerToGroup(p, n, g) /\ Readable(p)
              /\ n \in ScopeInstalled(p)
              /\ g \notin ScopeGroups(p)) =>
              (last'.outcome = "NotFound" /\ ScopeStore(p)' = ScopeStore(p))]_vars

\* C5: update_server_config(name, env_map) on an installed server leaves the
\* stored env equal to env_map: no key of the old env survives, and {} clears.
C5_UpdateReplacesEnv ==
    [][\A p \in Procs, n \in Servers, e \in EnvMaps :
          (last'.op = "update_server_config" /\ UpdateServerConfig(p, n, e)
              /\ n \in DOMAIN ScopeServers(p)) =>
              /\ last'.outcome = "returned"
              /\ ScopeServers(p)'[n].env = e
              /\ ctx[p] = "global" => globalFile'.servers[n].env = e]_vars

\* C5 witness: a global update_server_config has just rewritten a server
\* whose env is now empty, so the keys it had are gone.
C5_Witness ==
    /\ last.op = "update_server_config" /\ last.outcome = "returned"
    /\ \A p \in Procs : ctx[p] # "local"
    /\ \E p \in Procs, s \in last.changed :
          /\ ctx[p] = "global"
          /\ s \in DOMAIN mem[p].servers /\ mem[p].servers[s].env = EmptyMap
          /\ globalFile.status = "ok" /\ globalFile.servers[s].env = EmptyMap

\* C6: no server name is a key of both servers and devServers.
C6_ServersDevServersDisjoint ==
    (DOMAIN manifest.servers) \cap (DOMAIN manifest.devServers) = {}

\* C7: add_server through the context for an installed name, without force,
\* reports AlreadyExists and leaves the stored server unchanged.
C7_DuplicateAddRaisesAlreadyExists ==
    [][\A p \in Procs, n \in Servers, c \in CfgInputs, v \in Versions, d \in BOOLEAN :
          (last'.op = "add_server" /\ AddServer(p, n, c, FALSE, v, d) /\ Readable(p)
              /\ n \in ScopeInstalled(p)) =>
              (last'.outcome = "AlreadyExists" /\ ScopeStore(p)' = ScopeStore(p))]_vars

\* C8: the context selects its scope at construction: force-global gives
\* global whatever the directory holds; else force-local gives local with a
\* manifest and fails with NoProjectFound without one; else local iff a
\* manifest file exists; the scope of a live context never changes.
C8_ScopeSelection ==
    [][/\ \A p \in Procs, l \in BOOLEAN, gf \in BOOLEAN :
             (last'.op = "ConfigContext" /\ Construct(p, l, gf)) =>
                 /\ gf => (ctx'[p] = "global" /\ last'.outcome = "returned")
                 /\ (~gf /\ l /\ detect_project) =>
                        (ctx'[p] = "local" /\ last'.outcome = "returned")
                 /\ (~gf /\ l /\ ~detect_project) =>
                        (ctx'[p] = "none" /\ last'.outcome = "FileNotFoundError")
                 /\ (~gf /\ ~l) =>
                        /\ last'.outcome = "returned"
                        /\ ctx'[p] = "local" <=> detect_project
                        /\ ctx'[p] = "global" <=> ~detect_project
       /\ \A p \in Procs : (ctx[p] # "none" /\ ctx'[p] # "none") => ctx'[p] = ctx[p]]_vars

\* C8 witness: a context has just been constructed in a directory that
\* holds a manifest, and its scope is global (the force-global flag).
C8_Witness ==
    /\ last.op = "ConfigContext" /\ last.outcome = "returned"
    /\ manifest.status = "ok"
    /\ \E p \in Procs : ctx[p] = "global" /\ \A q \in Procs \ {p} : ctx[q] = "none"

\* C9: a global mutating call applies its change to the document as it is
\* persisted: an add_server that rewrites the file keeps every other server
\* the file held.
C9_MutationKeepsPersistedServers ==
    [][\A p \in Procs, n \in Servers, c \in CfgInputs, f \in BOOLEAN,
          v \in Versions, d \in BOOLEAN :
          (last'.op = "add_server" /\ AddServer(p, n, c, f, v, d) /\ ctx[p] = "global"
              /\ globalFile.status = "ok" /\ globalFile' # globalFile) =>
              \A m \in (DOMAIN globalFile.servers) \ {n} :
                  /\ m \in DOMAIN globalFile'.servers
                  /\ globalFile'.servers[m] = globalFile.servers[m]]_vars

\* C10: constructing a manager over a store file that does not parse fails;
\* the manager never starts with an empty store.
C10_CorruptStorePropagates ==
    [][\A p \in Procs, l \in BOOLEAN, gf \in BOOLEAN :
          (last'.op = "ConfigContext" /\ Construct(p, l, gf)
              /\ SelectScope(l, gf, detect_project) = "global"
              /\ globalFile.status = "corrupt") =>
              last'.outcome # "returned"]_vars

\* C11: add_server with an invalid server name or an invalid version
\* specifier fails with InvalidName or InvalidVersion and writes nothing:
\* the global store (file and memory), the manifest and the per-server
\* config files are the same after the call as before it.
C11_InvalidInputRejected ==
    [][\A p \in Procs, n \in NameInputs, f \in BOOLEAN, v \in VersionInputs,
          d \in BOOLEAN :
          (last'.op = "add_server"
              /\ AddServerCall(p, n, ServerCfg(EmptyMap, << >>), f, v, d)
              /\ (~validate_server_name(n) \/ ~validate_version(v))) =>
              (last'.outcome \in {"InvalidName", "InvalidVersion"}
                  /\ UNCHANGED <<globalFile, mem, manifest, cfgFiles>>)]_vars

\* C12: a get_servers whose fetch fails with a network error returns the
\* cached servers when the client holds any, also when they are older than
\* the TTL; it fails only when the client holds no cached servers; and it
\* leaves the cache, in memory and on disk, as it was, also when the request
\* that fails is the one for a later page.
C12_FetchFailureFallsBack ==
    [][\A f \in BOOLEAN, l \in 0..MaxLimit, k \in 1..MaxEntries :
          (reg_last'.op = "get_servers" /\ reg_last'.failed /\ GetServers(f, l, k)) =>
              /\ Truthy(servers_cache) =>
                    /\ reg_last'.outcome = "returned"
                    /\ reg_last'.result = servers_cache.items
              /\ reg_last'.outcome # "returned" => ~Truthy(servers_cache)
              /\ servers_cache' = servers_cache
              /\ cache_timestamp' = cache_timestamp
              /\ cache_file' = cache_file]_vars

\* C12 witness: the request for a later page has just failed over a cache
\* older than the TTL, and get_servers returned the cached servers
C12_Witness ==
    /\ reg_last.op = "get_servers"
    /\ reg_last.failed
    /\ reg_last.requests > 1
    /\ reg_last.outcome = "returned"
    /\ Truthy(servers_cache)
    /\ reg_last.result = servers_cache.items
    /\ now - cache_timestamp.at >= CACHE_TTL

\* C13: get_servers without force_refresh over a cache that holds servers
\* and is younger than the TTL returns the cached servers and makes no
\* request; a request is made only when force_refresh is set, the client
\* holds no cached servers, or the cache's age is at least the TTL.
C13_ValidCacheNoNetwork ==
    [][\A f \in BOOLEAN, l \in 0..MaxLimit, k \in 0..MaxEntries :
          (reg_last'.op = "get_servers" /\ GetServers(f, l, k)) =>
              /\ (~f /\ Truthy(servers_cache) /\ ~cache_timestamp.none
                     /\ now - cache_timestamp.at < CACHE_TTL) =>
                    /\ reg_last'.requests = 0
                    /\ reg_last'.outcome = "returned"
                    /\ reg_last'.result = servers_cache.items
              /\ reg_last'.requests > 0 =>
                    \/ f
                    \/ ~Truthy(servers_cache)
                    \/ now - cache_timestamp.at >= CACHE_TTL]_vars

\* C13 witness: get_servers has just answered from a cache younger than the
\* TTL without a request
C13_Witness ==
    /\ reg_last.op = "get_servers"
    /\ reg_last.requests = 0
    /\ reg_last.result # << >>
    /\ reg_last.result = servers_cache.items
    /\ now - cache_timestamp.at < CACHE_TTL

\* C15: get_server(name) with the version unspecified or "latest" returns an
\* entry of that name than which no listed entry of that name is higher in
\* semantic-version order (a version without a prerelease being higher than
\* the same major.minor.patch with one), in whatever order the registry
\* lists the entries.
C15_LatestIsHighestSemver ==
    [][\A n \in RegistryNames, v \in {NoVersion, "latest"}, k \in BOOLEAN :
          (reg_last'.op = "get_server" /\ reg_last'.outcome = "returned"
              /\ GetServer(n, v, k)) =>
              LET listed == servers_cache'.items
              IN \A i \in 1..Len(listed) :
                    listed[i].name = n =>
                        ~SemverLt(reg_last'.result[1].version, listed[i].version)]_vars

\* C16: get_server(name, version) with an explicit version other than
\* "latest" returns the listed entry of that name whose version string
\* equals the requested one; it fails with VersionNotFound when the name is
\* listed but not with that version, and with ServerNotFound when the name
\* is not listed; it never returns another version.
C16_ExplicitVersionExact ==
    [][\A n \in RegistryNames, v \in VersionArgs \ {NoVersion, "latest"},
          k \in BOOLEAN :
          (reg_last'.op = "get_server" /\ reg_last'.outcome # "RequestException"
              /\ GetServer(n, v, k)) =>
              LET listed == servers_cache'.items
                  known == \E i \in 1..Len(listed) : listed[i].name = n
                  has == \E i \in 1..Len(listed) :
                            listed[i].name = n /\ listed[i].version = v
              IN /\ has => reg_last'.outcome = "returned"
                 /\ reg_last'.outcome = "returned" =>
                       /\ has
                       /\ reg_last'.result = <<Entry(n, v, reg_last'.result[1].description)>>
                       /\ \E i \in 1..Len(listed) : listed[i] = reg_last'.result[1]
                 /\ (known /\ ~has) => reg_last'.outcome = "VersionNotFound"
                 /\ ~known => reg_last'.outcome = "ServerNotFound"]_vars

\* C16 witness: get_server has just returned the requested version of a name
\* that is listed with a prerelease of the same version before it
C16_Witness ==
    /\ reg_last.op = "get_server"
    /\ reg_last.outcome = "returned"
    /\ reg_last.result = <<Entry("io.github.a/mysql", "1.0.0", "db")>>
    /\ \E i, j \in 1..Len(servers_cache.items) :
          /\ i < j
          /\ servers_cache.items[i] = Entry("io.github.a/mysql", "1.0.0-rc", "db")
          /\ servers_cache.items[j] = Entry("io.github.a/mysql", "1.0.0", "db")

\* C14: a fetch no request of which fails follows the cursor from page to
\* page and stops at the first page after which the limit is reached, or at
\* the last page; it terminates, and its result, which becomes the cache, is
\* the concatenation of the pages it fetched, in order, cut to the limit
\* when one is given.
C14_FetchFollowsCursor ==
    /\ [](fetch.pc = "done" =>
            LET fetched == Flatten(SubSeq(registry, 1, fetch.cursor))
            IN /\ fetch.all_servers =
                     IF fetch.limit = NoLimit THEN fetched
                     ELSE Take(fetched, fetch.limit)
               /\ servers_cache = Cached(fetch.all_servers)
               /\ \/ fetch.cursor = Len(registry)
                  \/ fetch.limit # NoLimit /\ Len(fetched) >= fetch.limit
               /\ \A j \in 1..(fetch.cursor - 1) :
                     \/ fetch.limit = NoLimit
                     \/ Len(Flatten(SubSeq(registry, 1, j))) < fetch.limit)
    /\ (fetch.pc = "request") ~> (fetch.pc # "request")

\* C14 witness: a fetch with a limit has followed the cursor and ended when
\* the limit was reached, with a page left unfetched
C14_Witness ==
    /\ fetch.pc = "done"
    /\ fetch.cursor > 1
    /\ fetch.cursor < Len(registry)
    /\ fetch.limit # NoLimit
    /\ Len(fetch.all_servers) = fetch.limit
    /\ Len(Flatten(registry)) > fetch.limit

\* ---- the resolver's claims

\* the canonical names of the registry's servers whose simple name equals q
ExactSimple(q) ==
    {e.name : e \in {x \in ResolverEntries :
                        /\ \E i \in 1..Len(Flatten(registry)) : Flatten(registry)[i] = x
                        /\ simple_name(x.name) = q}}

\* C17: resolve(q) for a simple name q, with an empty resolution cache and a
\* reachable registry that holds exactly one server whose simple name equals
\* q, returns that server's canonical name without prompting, whatever other
\* servers the registry holds.
C17_UniqueSimpleNameNoPrompt ==
    [][(/\ res_last'.op = "resolve"
        /\ res_cache = EmptyMap
        /\ ~Contains("/", res_last'.name)
        /\ res_last'.outcome # "RequestException"
        /\ Cardinality(ExactSimple(res_last'.name)) = 1)
       => /\ res_last'.outcome = "returned"
          /\ res_last'.result \in ExactSimple(res_last'.name)
          /\ ~res_last'.prompted]_vars

\* C18: a resolve of a simple name that returns leaves the name cached with
\* the value returned; every step other than clear_cache, a restart of the
\* resolver included, keeps every cached resolution; and a resolve of a
\* cached name returns the cached value without a registry query and without
\* a prompt. Hence once resolve(q) has returned c, every later resolve(q)
\* returns c until the cache is cleared.
C18_CachedResolutionSticks ==
    [][/\ (res_last'.op = "resolve" /\ res_last'.name \in DOMAIN res_cache)
            => /\ res_last'.outcome = "returned"
               /\ res_last'.result = res_cache[res_last'.name]
               /\ ~res_last'.queried
               /\ ~res_last'.prompted
       /\ (/\ res_last'.op = "resolve"
           /\ res_last'.outcome = "returned"
           /\ ~Contains("/", res_last'.name))
            => /\ res_last'.name \in DOMAIN res_cache'
               /\ res_cache'[res_last'.name] = res_last'.result
       /\ res_last'.op # "clear_cache"
            => \A q \in DOMAIN res_cache :
                  q \in DOMAIN res_cache' /\ res_cache'[q] = res_cache[q]]_vars

\* C18 witness: a resolve of a cached simple name has returned the cached
\* value without a registry query, where the registry holds several matches
C18_Witness ==
    /\ res_last.op = "resolve"
    /\ res_last.name \in DOMAIN res_cache
    /\ res_last.result = res_cache[res_last.name]
    /\ ~res_last.queried
    /\ Len(search_registry(Flatten(registry), res_last.name)) > 1

\* C19: a resolve that ends with ServerNotFound or with ResolutionCancelled
\* leaves the resolution cache, in memory and on disk, as it was.
C19_FailedResolveLeavesCache ==
    [][(/\ res_last'.op = "resolve"
        /\ res_last'.outcome \in {"ServerNotFound", "ResolutionCancelled"})
       => res_cache' = res_cache /\ res_file' = res_file]_vars

\* C19 witness: the user has cancelled the prompt for a name while another
\* resolution is cached in memory and on disk
C19_Witness ==
    /\ res_last.op = "resolve"
    /\ res_last.outcome = "ResolutionCancelled"
    /\ res_last.prompted
    /\ res_last.name \notin DOMAIN res_cache
    /\ res_cache # EmptyMap
    /\ res_file = [exists |-> TRUE, names |-> res_cache]

\* ---- the adapter's claim

\* a value that is neither empty nor of the placeholder form
IsConcrete(value) ==
    value # "" /\ ~(StartsWith(value, "${") /\ EndsWith(value, "}"))

\* C20: the required-variable check on the stored runtime config reports
\* every declared required variable whose env value is its placeholder
\* ${NAME}, reports no declared required variable whose env value is
\* concrete, and reports declared required variables only; so it is empty
\* once update_server_config has set concrete values.
C20_PlaceholderReportedMissing ==
    missing.checked =>
        /\ \A i \in 1..Len(runtime.declared) :
              LET env_var == runtime.declared[i]
              IN (env_var.isRequired /\ env_var.name \in DOMAIN runtime.env) =>
                    /\ runtime.env[env_var.name] = Placeholder(env_var.name)
                          => In(env_var.name, missing.required)
                    /\ IsConcrete(runtime.env[env_var.name])
                          => ~In(env_var.name, missing.required)
        /\ \A j \in 1..Len(missing.required) :
              \E i \in 1..Len(runtime.declared) :
                 /\ runtime.declared[i].isRequired
                 /\ runtime.declared[i].name = missing.required[j]

\* ---- adapt's claims

\* the variables a package declares
DeclaredBy(package) ==
    {package.environmentVariables[i] : i \in 1..Len(package.environmentVariables)}

\* C21: the env of the runtime config adapt returns has an entry for every
\* variable the selected package declares: the override when the override
\* map has that exact key, else the declared default when one is set, else
\* the empty string.
C21_EnvCoversDeclared ==
    runtime.packaged =>
        \A env_var \in DeclaredBy(select_best_package(server_json.packages)) :
            /\ env_var.name \in DOMAIN runtime.env
            /\ runtime.env[env_var.name] =
                  IF env_var.name \in DOMAIN env_overrides
                  THEN env_overrides[env_var.name]
                  ELSE IF env_var.default # "" THEN env_var.default
                  ELSE ""

\* C21 witness: adapt has selected a second, stdio package and returned an
\* env with an empty entry for a declared variable that the override map
\* names in another case only
C21_Witness ==
    /\ runtime.packaged
    /\ Len(server_json.packages) = 2
    /\ server_json.packages[1].transport # "stdio"
    /\ "api_key" \in DOMAIN env_overrides
    /\ "API_KEY" \in DOMAIN runtime.env
    /\ runtime.env["API_KEY"] = ""

\* C30: the required-variable check on the runtime config adapt returned
\* reports exactly the variables the selected package declares required
\* whose value in the runtime env is empty.
C30_MissingOfSelectedPackage ==
    (missing.checked /\ runtime.packaged) =>
        {missing.required[i] : i \in 1..Len(missing.required)} =
        {env_var.name : env_var \in
            {d \in DeclaredBy(select_best_package(server_json.packages)) :
                d.isRequired /\ runtime.env[d.name] = ""}}

\* ---- the registry cache after a limited call

\* C29: get_servers without a limit, no request of which fails, returns
\* every server the registry holds across its pages, also when a call with a
\* limit was made less than one TTL before; and get_server then finds every
\* server name the registry holds.
C29_UnlimitedReturnsAll ==
    [][/\ \A f \in BOOLEAN :
            (/\ reg_last'.op = "get_servers"
             /\ GetServers(f, NoLimit, 0)
             /\ reg_last'.outcome = "returned"
             /\ ~reg_last'.failed)
            => reg_last'.result = Flatten(registry)
       /\ \A n \in RegistryNames :
            (/\ reg_last'.op = "get_server"
             /\ GetServer(n, NoVersion, FALSE)
             /\ \E i \in 1..Len(Flatten(registry)) : Flatten(registry)[i].name = n)
            => reg_last'.outcome = "returned"]_vars

\* ---- the group helpers' claim

\* how often x occurs in the list s
Count(s, x) == Cardinality({i \in 1..Len(s) : s[i] = x})

\* C27: add_group(g) leaves g in the server's groups exactly once, also when
\* called a second time, which changes nothing; remove_group(g) for a group
\* the server does not carry changes nothing; and no sequence of the two
\* calls gives a groups list with a duplicate entry.
C27_GroupHelpersIdempotent ==
    /\ [][\A g \in TagInputs :
            /\ AddGroup(g) =>
                  /\ Count(runtime'.groups, g) = 1
                  /\ add_group(runtime', g) = runtime'
                  /\ In(g, runtime.groups) => runtime' = runtime
            /\ (RemoveGroup(g) /\ ~In(g, runtime.groups)) => runtime' = runtime]_vars
    /\ [](\A g \in TagInputs : Count(runtime.groups, g) <= 1)

\* C27 witness: a server carries all the group names, after which every
\* further add_group is a second call
C27_Witness ==
    /\ Len(runtime.groups) = Cardinality(TagInputs)
    /\ \A g \in TagInputs : has_group(runtime, g)

\* ---- the global store's claims

\* C25: on a GlobalConfigManager, add_server(s) that returns True leaves
\* server_exists(s.name) true, remove_server(n) that returns True leaves
\* server_exists(n) false, neither changes the existence of another server,
\* and a call that returns False and every other operation change the
\* existence of no server.
C25_ExistsTracksAddRemove ==
    [][\A p \in Procs :
          (ctx[p] = "global" /\ ctx'[p] = "global") =>
            /\ \A n \in Servers, c \in CfgInputs, f \in BOOLEAN :
                  (last'.op = "add_server"
                      /\ AddServerCall(p, n, c, f, "latest", FALSE)) =>
                     /\ G_add_server(mem[p], n, c, f).ret => server_exists(mem'[p], n)
                     /\ \A o \in Servers :
                           (o # n \/ ~G_add_server(mem[p], n, c, f).ret) =>
                              (server_exists(mem'[p], o) <=> server_exists(mem[p], o))
            /\ \A n \in Servers :
                  (last'.op = "remove_server" /\ RemoveServer(p, n)) =>
                     /\ G_remove_server(mem[p], n).ret => ~server_exists(mem'[p], n)
                     /\ \A o \in Servers :
                           (o # n \/ ~G_remove_server(mem[p], n).ret) =>
                              (server_exists(mem'[p], o) <=> server_exists(mem[p], o))
            /\ last'.op \notin {"add_server", "remove_server"} =>
                  \A o \in Servers :
                     server_exists(mem'[p], o) <=> server_exists(mem[p], o)]_vars

\* C25 witness: the only manager has removed one of its two servers; the
\* other still exists, in memory and in the file
C25_Witness ==
    /\ last.op = "remove_server"
    /\ \E p \in Procs :
          /\ ctx[p] = "global"
          /\ \A q \in Procs \ {p} : ctx[q] = "none"
          /\ Cardinality(DOMAIN mem[p].servers) = 1
          /\ globalFile = SaveConfig(mem[p])

\* C26: on a GlobalConfigManager, add_server_to_group(s, g) that returns True
\* leaves s among get_servers_in_group(g) and s.has_group(g) true; and
\* get_servers_in_group(g) returns exactly the servers whose groups list
\* holds g, each with its stored configuration.
C26_TaggedServerInGroup ==
    /\ [][\A p \in Procs, n \in Servers, g \in Groups :
            (/\ last'.op = "add_server_to_group"
             /\ ctx[p] = "global"
             /\ AddServerToGroup(p, n, g)
             /\ G_add_server_to_group(mem[p], n, g).ret) =>
               /\ n \in DOMAIN get_servers_in_group(mem'[p], g)
               /\ has_group(mem'[p].servers[n], g)]_vars
    /\ [](\A p \in Procs, g \in Groups :
            /\ DOMAIN get_servers_in_group(mem[p], g) =
                  {n \in DOMAIN mem[p].servers :
                      \E i \in 1..Len(mem[p].servers[n].groups) :
                         mem[p].servers[n].groups[i] = g}
            /\ \A n \in DOMAIN get_servers_in_group(mem[p], g) :
                  get_servers_in_group(mem[p], g)[n] = mem[p].servers[n])

\* C26 witness: a server has been tagged with a second group and is returned
\* for both groups, while another installed server is returned for neither
C26_Witness ==
    /\ last.op = "add_server_to_group"
    /\ \E p \in Procs :
          /\ ctx[p] = "global"
          /\ \E n \in DOMAIN mem[p].servers :
                /\ \A g \in Groups : n \in DOMAIN get_servers_in_group(mem[p], g)
                /\ \E o \in DOMAIN mem[p].servers :
                      \A g \in Groups : o \notin DOMAIN get_servers_in_group(mem[p], g)

\* ---- the local store's installed servers

\* C28: in a project, a server name is a key of the manifest's servers or
\* devServers if and only if its per-server config file exists, which is
\* what get_server and server_exists look at.
C28_ManifestMatchesFiles ==
    manifest.status = "ok" =>
        \A n \in Servers :
            (n \in (DOMAIN manifest.servers) \cup (DOMAIN manifest.devServers))
                <=> n \in DOMAIN cfgFiles

\* ---- the round trip through the stores' files

ManagerCall(op) == client_last'.op = op

\* C23: a JSON client manager that loads a config file which is not
\* parseable JSON renames the file to its ".bak" sibling and goes on with
\* an empty config: list_servers returns nothing and remove_server finds
\* nothing, add_server succeeds and writes a config holding the one server,
\* and the ".bak" file holds the corrupt content; an add_server that
\* follows the load finds no file, succeeds and leaves the ".bak" alone.
C23_CorruptJsonBackedUp ==
    [][client.kind \in JSONKinds =>
          /\ (config_file.exists /\ ~Parsed(config_file)) =>
                /\ ManagerCall("list_servers") =>
                      /\ client_last'.outcome = "returned"
                      /\ client_last'.names = {}
                      /\ ~config_file'.exists
                      /\ backup_file' = config_file
                /\ ManagerCall("remove_server") =>
                      /\ client_last'.outcome = "returned"
                      /\ ~client_last'.ok
                      /\ ~config_file'.exists
                      /\ backup_file' = config_file
                /\ ManagerCall("add_server") =>
                      /\ client_last'.outcome = "returned"
                      /\ client_last'.ok
                      /\ backup_file' = config_file
                      /\ J_list_servers(client, config_file', backup_file').names
                            = {client_last'.name}
          /\ (~config_file.exists /\ ManagerCall("add_server")) =>
                /\ client_last'.outcome = "returned"
                /\ client_last'.ok
                /\ backup_file' = backup_file
                /\ J_list_servers(client, config_file', backup_file').names
                      = {client_last'.name}
      ]_vars

\* the parsed document of a file: nothing for a missing or unparseable one
Doc(file) == IF file.exists /\ Parsed(file) THEN file.content.v ELSE EmptyMap

\* the top-level key under which a client keeps its servers
ServersKey(kind) ==
    CASE kind = "vscode" -> "mcp"
      [] kind = "goose" -> "extensions"
      [] OTHER -> "mcpServers"

\* the server entries of a document, by server name
EntriesOf(kind, file) ==
    CASE kind = "vscode" -> Listed(Listed(Doc(file), "mcp"), "servers")
      [] kind = "continue" ->
           LET servers == Listed(Doc(file), "mcpServers")
           IN [n \in get_all_server_names(kind, Doc(file)) |->
                  servers[Position(servers, n)]]
      [] OTHER -> Listed(Doc(file), ServersKey(kind))

\* the keys of a document that are not its servers: at top level, and for
\* VSCode inside the "mcp" section
OtherSettings(kind, file) == Drop(Doc(file), ServersKey(kind))

OtherSectionSettings(kind, file) ==
    IF kind = "vscode" THEN Drop(Listed(Doc(file), "mcp"), "servers")
    ELSE EmptyMap

Kept(before, after) ==
    \A k \in DOMAIN before : k \in DOMAIN after /\ after[k] = before[k]

\* C24: add_server and remove_server of a client manager leave every other
\* server entry and every other key of the client's document, present
\* before the call, present with the same value after it.
C24_OnlyNamedEntryChanges ==
    [][(ManagerCall("add_server") \/ ManagerCall("remove_server")) =>
          /\ Kept(OtherSettings(client.kind, config_file),
                  OtherSettings(client.kind, config_file'))
          /\ Kept(OtherSectionSettings(client.kind, config_file),
                  OtherSectionSettings(client.kind, config_file'))
          /\ Kept(Drop(EntriesOf(client.kind, config_file), client_last'.name),
                  Drop(EntriesOf(client.kind, config_file'), client_last'.name))
      ]_vars

\* VSCode settings with other keys, inside and outside "mcp", and another
\* server, after add_server rewrote them
C24_Witness ==
    /\ client.kind = "vscode"
    /\ client_last.op = "add_server"
    /\ client_last.name = "filesystem"
    /\ client_last.ok
    /\ "editor.fontSize" \in DOMAIN OtherSettings(client.kind, config_file)
    /\ "inputs" \in DOMAIN OtherSectionSettings(client.kind, config_file)
    /\ DOMAIN EntriesOf(client.kind, config_file) = {"brave-search", "filesystem"}

====
